---- MODULE Spec2Model ----
(***************************************************************************)
(* Model of connection_parser.ConnectionParser: the line-driven record     *)
(* assembler (parse_file_simple and its helpers), the elephant-flow        *)
(* classifier (find_elephant_flows and its helpers) and the statistics     *)
(* aggregators (get_elephant_flow_stats, analyze_connections), and the     *)
(* print_elephant_flows calls of the command-line scripts.                 *)
(*                                                                         *)
(* A Python str is a sequence of one-character strings; a Python dict is a *)
(* function whose domain is its key set; a Python int is an unbounded      *)
(* natural kept as little-endian limbs (see the N* operators); a Python    *)
(* float result of a division is the exact rational [n, d].                *)
(***************************************************************************)
EXTENDS Integers, Sequences, FiniteSets, TLC

VARIABLES
    input,               \* the lines of the file handed to parse_file_simple
    file,                \* the lines not read yet
    connections_local,   \* parse_file_simple's local list `connections`
    current_connection,  \* parse_file_simple's local dict `current_connection`
    pc,                  \* "idle", "parsing", or "raised" (an exception left the call)
    connections,         \* self.connections
    elephant_flows,      \* the list returned by the last find_elephant_flows call
    args,                \* the arguments of the last find_elephant_flows call
    stats,               \* self.stats
    call,                \* the helper call under way: its name and its argument
    ret                  \* <<>> until the helper call returns, then <<its value>>

vars == <<input, file, connections_local, current_connection, pc,
          connections, elephant_flows, args, stats, call, ret>>

----------------------------------------------------------------------------
(* Python str primitives *)

Whitespace == {" ", "\t"}
Digits == {"0", "1", "2", "3", "4", "5", "6", "7", "8", "9"}

EmptyDict == [k \in {} |-> <<>>]

\* Python None handed over where a str is expected: distinct from every str
None == <<"None">>

MinOf(S) == CHOOSE m \in S : \A x \in S : m <= x

\* number of consecutive characters of s, from position i on, that are in C
RECURSIVE SpanIn(_, _, _)
SpanIn(s, i, C) ==
    IF i <= Len(s) /\ s[i] \in C THEN 1 + SpanIn(s, i + 1, C) ELSE 0

\* number of consecutive characters of s, from position i on, that are not in C
RECURSIVE SpanNotIn(_, _, _)
SpanNotIn(s, i, C) ==
    IF i <= Len(s) /\ s[i] \notin C THEN 1 + SpanNotIn(s, i + 1, C) ELSE 0

\* str.strip()
RECURSIVE LStrip(_)
LStrip(s) == IF s # <<>> /\ Head(s) \in Whitespace THEN LStrip(Tail(s)) ELSE s

RECURSIVE RStripSet(_, _)
RStripSet(s, C) ==
    IF s # <<>> /\ s[Len(s)] \in C THEN RStripSet(SubSeq(s, 1, Len(s) - 1), C) ELSE s

Strip(s) == RStripSet(LStrip(s), Whitespace)

\* str.rstrip(c) for a one-character c
RStrip(s, c) == RStripSet(s, {c})

StartsWithAt(s, p, i) ==
    /\ i >= 1
    /\ i + Len(p) - 1 <= Len(s)
    /\ SubSeq(s, i, i + Len(p) - 1) = p

\* str.startswith(p)
StartsWith(s, p) == StartsWithAt(s, p, 1)

\* str.find(p) + 1: position of the first occurrence of p in s, 0 if none
Find(s, p) ==
    LET I == {i \in 1..(Len(s) - Len(p) + 1) : StartsWithAt(s, p, i)}
    IN  IF I = {} THEN 0 ELSE MinOf(I)

\* p in s
Contains(s, p) == Find(s, p) # 0

\* str.split(sep)
RECURSIVE SplitStr(_, _)
SplitStr(s, sep) ==
    LET i == Find(s, sep)
    IN  IF i = 0 THEN <<s>>
        ELSE <<SubSeq(s, 1, i - 1)>> \o SplitStr(SubSeq(s, i + Len(sep), Len(s)), sep)

\* str.split()
RECURSIVE SplitWs(_)
SplitWs(s) ==
    LET t == LStrip(s)
        n == SpanNotIn(t, 1, Whitespace)
    IN  IF t = <<>> THEN <<>>
        ELSE <<SubSeq(t, 1, n)>> \o SplitWs(SubSeq(t, n + 1, Len(t)))

\* str.replace(old, new)
RECURSIVE Replace(_, _, _)
Replace(s, old, new) ==
    LET i == Find(s, old)
    IN  IF i = 0 THEN s
        ELSE SubSeq(s, 1, i - 1) \o new
             \o Replace(SubSeq(s, i + Len(old), Len(s)), old, new)

\* str.isdigit() on the modelled alphabet
IsDigit(s) == s # <<>> /\ \A i \in 1..Len(s) : s[i] \in Digits

----------------------------------------------------------------------------
(* ConnectionParser._parse_connection_line *)

S_TCP == <<"T", "C", "P">>
S_UDP == <<"U", "D", "P">>
S_ICMP == <<"I", "C", "M", "P">>

\* re.match(r'^(TCP|UDP|ICMP)', line)
IsMainLine(line) ==
    StartsWith(line, S_TCP) \/ StartsWith(line, S_UDP) \/ StartsWith(line, S_ICMP)

\* the loop's condition at (1-based) index i:
\*   ':' in part and '/' in parts[i+1] if i+1 < len(parts) else False
PairAt(parts, i) ==
    IF i + 1 <= Len(parts)
    THEN Contains(parts[i], <<":">>) /\ Contains(parts[i + 1], <<"/">>)
    ELSE FALSE

\* a, b = tok.split('/') raises ValueError unless the split has two parts
UnpackRaises(tok) == Len(SplitStr(tok, <<"/">>)) # 2

\* the body of the loop's if for index i raises
PairRaises(parts, i) ==
    \/ UnpackRaises(RStrip(parts[i + 1], ","))
    \/ /\ i + 3 <= Len(parts)
       /\ Contains(RStrip(parts[i + 3], ","), <<"/">>)
       /\ UnpackRaises(RStrip(parts[i + 3], ","))

\* the body of the loop's if for index i, applied to the dict connection
PairApply(connection, parts, i) ==
    LET src_ip_port == RStrip(parts[i + 1], ",")
        src == SplitStr(src_ip_port, <<"/">>)
        c1 == ("src_interface" :> RStrip(parts[i], ":")) @@ connection
        c2 == IF Contains(src_ip_port, <<"/">>)
              THEN ("src_ip" :> src[1]) @@ ("src_port" :> src[2]) @@ c1
              ELSE c1
        c3 == IF i + 2 <= Len(parts)
              THEN ("dst_interface" :> RStrip(parts[i + 2], ":")) @@ c2
              ELSE c2
        dst_ip_port == RStrip(parts[i + 3], ",")
        dst == SplitStr(dst_ip_port, <<"/">>)
    IN  IF i + 3 <= Len(parts) /\ Contains(dst_ip_port, <<"/">>)
        THEN ("dst_ip" :> dst[1]) @@ ("dst_port" :> dst[2]) @@ c3
        ELSE c3

\* the indices at which the loop's condition holds
PairIndices(parts) == {i \in 1..Len(parts) : PairAt(parts, i)}

\* the loop without its break: every matching pair is applied in turn
RECURSIVE ApplyAllPairs(_, _, _)
ApplyAllPairs(connection, parts, i) ==
    IF i > Len(parts) THEN connection
    ELSE ApplyAllPairs(IF PairAt(parts, i) THEN PairApply(connection, parts, i)
                       ELSE connection, parts, i + 1)

parse_connection_line_nobreak(line) ==
    LET parts == SplitWs(line)
    IN  ApplyAllPairs("protocol" :> parts[1], parts, 1)

\* the dict parse_connection_line returns (when it does not raise)
parse_connection_line(line) ==
    LET parts == SplitWs(line)
        connection == "protocol" :> parts[1]
    IN  IF PairIndices(parts) = {} THEN connection
        ELSE PairApply(connection, parts, MinOf(PairIndices(parts)))

\* parse_connection_line raises ValueError
parse_connection_line_raises(line) ==
    LET parts == SplitWs(line)
    IN  PairIndices(parts) # {} /\ PairRaises(parts, MinOf(PairIndices(parts)))

----------------------------------------------------------------------------
(* ConnectionParser._parse_flags_line, _parse_initiator_responder, keyid *)

\* re.search(kw + r'\s+(\S+)', line) / re.search(kw + r'\s+(\d+)', line):
\* the positions i at which kw occurs, followed by a whitespace run, followed
\* by at least one character of the captured class (\s+ is greedy and the
\* captured class excludes whitespace, so the capture starts after the whole
\* whitespace run)
KwStarts(line, kw, digitsOnly) ==
    {i \in 1..Len(line) :
        /\ StartsWithAt(line, kw, i)
        /\ SpanIn(line, i + Len(kw), Whitespace) >= 1
        /\ LET k == i + Len(kw) + SpanIn(line, i + Len(kw), Whitespace)
           IN  IF digitsOnly THEN SpanIn(line, k, Digits) >= 1
               ELSE SpanNotIn(line, k, Whitespace) >= 1}

KwMatches(line, kw, digitsOnly) == KwStarts(line, kw, digitsOnly) # {}

\* match.group(1) of the leftmost match
KwGroup(line, kw, digitsOnly) ==
    LET i == MinOf(KwStarts(line, kw, digitsOnly))
        k == i + Len(kw) + SpanIn(line, i + Len(kw), Whitespace)
        n == IF digitsOnly THEN SpanIn(line, k, Digits)
             ELSE SpanNotIn(line, k, Whitespace)
    IN  SubSeq(line, k, k + n - 1)

S_flags == <<"f", "l", "a", "g", "s">>
S_idle == <<"i", "d", "l", "e">>
S_uptime == <<"u", "p", "t", "i", "m", "e">>
S_timeout == <<"t", "i", "m", "e", "o", "u", "t">>
S_bytes == <<"b", "y", "t", "e", "s">>
S_RxRingNum == <<"R", "x", "-", "R", "i", "n", "g", "N", "u", "m">>
S_InternalData == <<"I", "n", "t", "e", "r", "n", "a", "l", "-", "D", "a", "t", "a">>
S_Initiator == <<"I", "n", "i", "t", "i", "a", "t", "o", "r", ":">>
S_Responder == <<"R", "e", "s", "p", "o", "n", "d", "e", "r", ":">>
S_keyid == <<"C", "o", "n", "n", "e", "c", "t", "i", "o", "n", " ",
             "l", "o", "o", "k", "u", "p", " ", "k", "e", "y", "i", "d", ":">>

\* re.search(r'(Internal-Data\S+)', line)
InternalDataStarts(line) ==
    {i \in 1..Len(line) :
        /\ StartsWithAt(line, S_InternalData, i)
        /\ SpanNotIn(line, i + Len(S_InternalData), Whitespace) >= 1}

InternalDataGroup(line) ==
    LET i == MinOf(InternalDataStarts(line))
    IN  SubSeq(line, i, i + Len(S_InternalData) - 1
                        + SpanNotIn(line, i + Len(S_InternalData), Whitespace))

\* flags_part.replace('- ', '').replace('-', '')
FlagsValue(line) ==
    LET flags_part == Strip(SplitStr(SplitStr(line, S_flags)[2], <<",">>)[1])
    IN  Replace(Replace(flags_part, <<"-", " ">>, <<>>), <<"-">>, <<>>)

KwEntry(line, key, kw, digitsOnly) ==
    IF KwMatches(line, kw, digitsOnly) THEN key :> KwGroup(line, kw, digitsOnly)
    ELSE EmptyDict

\* the dict info returned by _parse_flags_line
parse_flags_line(line) ==
    (IF Contains(line, S_flags) THEN "flags" :> FlagsValue(line) ELSE EmptyDict)
    @@ KwEntry(line, "idle", S_idle, FALSE)
    @@ KwEntry(line, "uptime", S_uptime, FALSE)
    @@ KwEntry(line, "timeout", S_timeout, FALSE)
    @@ KwEntry(line, "bytes", S_bytes, TRUE)
    @@ KwEntry(line, "rx_ring_num", S_RxRingNum, TRUE)
    @@ (IF InternalDataStarts(line) # {} THEN "internal_data" :> InternalDataGroup(line)
        ELSE EmptyDict)

\* length of a match of \d+\.\d+\.\d+\.\d+ at position k of line, 0 if none
\* (each \d+ is followed by a literal dot or the end, so it takes a whole run)
DottedQuadLen(line, k) ==
    LET d1 == SpanIn(line, k, Digits)
        k2 == k + d1 + 1
        d2 == SpanIn(line, k2, Digits)
        k3 == k2 + d2 + 1
        d3 == SpanIn(line, k3, Digits)
        k4 == k3 + d3 + 1
        d4 == SpanIn(line, k4, Digits)
        dot(j) == j <= Len(line) /\ line[j] = "."
    IN  IF /\ d1 >= 1 /\ dot(k + d1)
           /\ d2 >= 1 /\ dot(k2 + d2)
           /\ d3 >= 1 /\ dot(k3 + d3)
           /\ d4 >= 1
        THEN k4 + d4 - k ELSE 0

\* re.search(kw + r'\s+(\d+\.\d+\.\d+\.\d+)', line)
IpStarts(line, kw) ==
    {i \in 1..Len(line) :
        /\ StartsWithAt(line, kw, i)
        /\ SpanIn(line, i + Len(kw), Whitespace) >= 1
        /\ DottedQuadLen(line, i + Len(kw) + SpanIn(line, i + Len(kw), Whitespace)) > 0}

IpGroup(line, kw) ==
    LET i == MinOf(IpStarts(line, kw))
        k == i + Len(kw) + SpanIn(line, i + Len(kw), Whitespace)
    IN  SubSeq(line, k, k + DottedQuadLen(line, k) - 1)

\* the dict info returned by _parse_initiator_responder
parse_initiator_responder(line) ==
    (IF IpStarts(line, S_Initiator) # {} THEN "initiator_ip" :> IpGroup(line, S_Initiator)
     ELSE EmptyDict)
    @@ (IF IpStarts(line, S_Responder) # {} THEN "responder_ip" :> IpGroup(line, S_Responder)
        ELSE EmptyDict)

\* line.split(':')[-1].strip()
KeyidValue(line) ==
    LET ps == SplitStr(line, <<":">>) IN Strip(ps[Len(ps)])

----------------------------------------------------------------------------
(* ConnectionParser.parse_file_simple: one action per iteration of its loop
   over the file's lines, and one for the code after the loop *)

\* line = line.strip()
line == Strip(Head(file))

Reading == pc = "parsing" /\ file # <<>>

\* if current_connection: connections.append(current_connection)
Flushed ==
    IF DOMAIN current_connection # {} THEN Append(connections_local, current_connection)
    ELSE connections_local

\* if not line: continue
ReadEmptyLine ==
    /\ Reading
    /\ line = <<>>
    /\ file' = Tail(file)
    /\ UNCHANGED <<input, connections_local, current_connection, pc,
                   connections, elephant_flows, args, stats, call, ret>>

\* if re.match(r'^(TCP|UDP|ICMP)', line): flush, then parse the main line
ReadMainLine ==
    /\ Reading
    /\ IsMainLine(line)
    /\ ~parse_connection_line_raises(line)
    /\ connections_local' = Flushed
    /\ current_connection' = parse_connection_line(line)
    /\ file' = Tail(file)
    /\ UNCHANGED <<input, pc, connections, elephant_flows, args, stats, call, ret>>

\* the same branch when _parse_connection_line raises: the exception leaves
\* parse_file_simple, self.connections is not assigned
ReadMainLineRaises ==
    /\ Reading
    /\ IsMainLine(line)
    /\ parse_connection_line_raises(line)
    /\ connections_local' = Flushed
    /\ pc' = "raised"
    /\ UNCHANGED <<input, file, current_connection, connections, elephant_flows, args, stats, call, ret>>

\* ReadFlagsLine with the update the other way round: a field the open record
\* already has keeps its old value
ReadFlagsLine_KeepFirst ==
    /\ Reading
    /\ line # <<>>
    /\ ~IsMainLine(line)
    /\ StartsWith(line, S_flags)
    /\ current_connection' = current_connection @@ parse_flags_line(line)
    /\ file' = Tail(file)
    /\ UNCHANGED <<input, connections_local, pc, connections, elephant_flows, args, stats, call, ret>>

\* elif line.startswith('flags'): current_connection.update(flags_info)
ReadFlagsLine ==
    /\ Reading
    /\ line # <<>>
    /\ ~IsMainLine(line)
    /\ StartsWith(line, S_flags)
    /\ current_connection' = parse_flags_line(line) @@ current_connection
    /\ file' = Tail(file)
    /\ UNCHANGED <<input, connections_local, pc, connections, elephant_flows, args, stats, call, ret>>

IsInitRespLine(l) == Contains(l, S_Initiator) /\ Contains(l, S_Responder)

\* elif 'Initiator:' in line and 'Responder:' in line
ReadInitiatorResponderLine ==
    /\ Reading
    /\ line # <<>>
    /\ ~IsMainLine(line)
    /\ ~StartsWith(line, S_flags)
    /\ IsInitRespLine(line)
    /\ current_connection' = parse_initiator_responder(line) @@ current_connection
    /\ file' = Tail(file)
    /\ UNCHANGED <<input, connections_local, pc, connections, elephant_flows, args, stats, call, ret>>

\* elif 'Connection lookup keyid:' in line
ReadKeyidLine ==
    /\ Reading
    /\ line # <<>>
    /\ ~IsMainLine(line)
    /\ ~StartsWith(line, S_flags)
    /\ ~IsInitRespLine(line)
    /\ Contains(line, S_keyid)
    /\ current_connection' = ("keyid" :> KeyidValue(line)) @@ current_connection
    /\ file' = Tail(file)
    /\ UNCHANGED <<input, connections_local, pc, connections, elephant_flows, args, stats, call, ret>>

\* no branch of the if/elif chain is taken
ReadOtherLine ==
    /\ Reading
    /\ line # <<>>
    /\ ~IsMainLine(line)
    /\ ~StartsWith(line, S_flags)
    /\ ~IsInitRespLine(line)
    /\ ~Contains(line, S_keyid)
    /\ file' = Tail(file)
    /\ UNCHANGED <<input, connections_local, current_connection, pc,
                   connections, elephant_flows, args, stats, call, ret>>

\* after the loop: flush the last connection, self.connections = connections
EndOfFile ==
    /\ pc = "parsing"
    /\ file = <<>>
    /\ connections_local' = Flushed
    /\ connections' = Flushed
    /\ pc' = "idle"
    /\ UNCHANGED <<input, file, current_connection, elephant_flows, args, stats, call, ret>>

----------------------------------------------------------------------------
(* Python int: unbounded naturals as little-endian limbs in base Base,
   without leading zero limbs (zero is the empty sequence).  Python float
   results of '/' are kept as exact rationals [n |-> N, d |-> N], d > 0. *)

Base == 10 ^ 4

RECURSIVE NOfInt(_)
NOfInt(k) == IF k = 0 THEN <<>> ELSE <<k % Base>> \o NOfInt(k \div Base)

RECURSIVE NAddC(_, _, _)
NAddC(a, b, c) ==
    IF a = <<>> /\ b = <<>> THEN NOfInt(c)
    ELSE LET x == (IF a # <<>> THEN a[1] ELSE 0) + (IF b # <<>> THEN b[1] ELSE 0) + c
         IN  <<x % Base>> \o NAddC(IF a # <<>> THEN Tail(a) ELSE <<>>,
                                   IF b # <<>> THEN Tail(b) ELSE <<>>, x \div Base)

NAdd(a, b) == NAddC(a, b, 0)

RECURSIVE NMulLimbC(_, _, _)
NMulLimbC(a, m, c) ==
    IF a = <<>> THEN NOfInt(c)
    ELSE LET x == a[1] * m + c
         IN  <<x % Base>> \o NMulLimbC(Tail(a), m, x \div Base)

NMulLimb(a, m) == IF m = 0 THEN <<>> ELSE NMulLimbC(a, m, 0)

RECURSIVE NMul(_, _)
NMul(a, b) ==
    IF a = <<>> \/ b = <<>> THEN <<>>
    ELSE LET rest == NMul(Tail(a), b)
         IN  NAdd(NMulLimb(b, a[1]), IF rest = <<>> THEN <<>> ELSE <<0>> \o rest)

RECURSIVE NGEFrom(_, _, _)
NGEFrom(a, b, i) ==
    IF i = 0 THEN TRUE
    ELSE a[i] > b[i] \/ (a[i] = b[i] /\ NGEFrom(a, b, i - 1))

\* a >= b
NGE(a, b) == Len(a) > Len(b) \/ (Len(a) = Len(b) /\ NGEFrom(a, b, Len(a)))

DigitValue(c) ==
    CASE c = "0" -> 0 [] c = "1" -> 1 [] c = "2" -> 2 [] c = "3" -> 3 [] c = "4" -> 4
      [] c = "5" -> 5 [] c = "6" -> 6 [] c = "7" -> 7 [] c = "8" -> 8 [] c = "9" -> 9

\* int(s) for a string of digits
RECURSIVE IntOfDigits(_)
IntOfDigits(s) ==
    IF s = <<>> THEN <<>>
    ELSE NAdd(NMulLimb(IntOfDigits(SubSeq(s, 1, Len(s) - 1)), 10),
              NOfInt(DigitValue(s[Len(s)])))

Rat(n, d) == [n |-> n, d |-> d]
RatZero == Rat(<<>>, NOfInt(1))
RatOfInt(k) == Rat(NOfInt(k), NOfInt(1))
RatAdd(x, y) == Rat(NAdd(NMul(x.n, y.d), NMul(y.n, x.d)), NMul(x.d, y.d))
\* x >= y
RatGE(x, y) == NGE(NMul(x.n, y.d), NMul(y.n, x.d))

----------------------------------------------------------------------------
(* ConnectionParser._parse_time_to_seconds *)

\* re.search(r'(\d+)' + unit, s): starts of a digit run directly followed by unit
UnitStarts(s, unit) ==
    {i \in 1..Len(s) :
        /\ SpanIn(s, i, Digits) >= 1
        /\ i + SpanIn(s, i, Digits) <= Len(s)
        /\ s[i + SpanIn(s, i, Digits)] = unit}

\* a year counted as 360 days
UnitSeconds_Year360(s, unit, seconds) ==
    IF UnitStarts(s, unit) = {} THEN <<>>
    ELSE LET i == MinOf(UnitStarts(s, unit))
             secs == IF unit = "Y" THEN 360 * 24 * 3600 ELSE seconds
         IN  NMul(IntOfDigits(SubSeq(s, i, i + SpanIn(s, i, Digits) - 1)), NOfInt(secs))

\* int(match.group(1)) * seconds, 0 when the unit does not match
UnitSeconds(s, unit, seconds) ==
    IF UnitStarts(s, unit) = {} THEN <<>>
    ELSE LET i == MinOf(UnitStarts(s, unit))
         IN  NMul(IntOfDigits(SubSeq(s, i, i + SpanIn(s, i, Digits) - 1)), NOfInt(seconds))

\* a digit run without a unit letter counted as seconds
parse_time_to_seconds_bare_number(time_str) ==
    IF time_str = <<>> \/ time_str = None THEN <<>>
    ELSE LET s == RStrip(time_str, ",")
         IN  IF IsDigit(s) THEN IntOfDigits(s)
             ELSE NAdd(UnitSeconds(s, "Y", 365 * 24 * 3600),
                  NAdd(UnitSeconds(s, "D", 24 * 3600),
                  NAdd(UnitSeconds(s, "h", 3600),
                  NAdd(UnitSeconds(s, "m", 60),
                       UnitSeconds(s, "s", 1)))))

parse_time_to_seconds(time_str) ==
    IF time_str = <<>> \/ time_str = None THEN <<>>
    ELSE LET s == RStrip(time_str, ",")
         IN  NAdd(UnitSeconds(s, "Y", 365 * 24 * 3600),
             NAdd(UnitSeconds(s, "D", 24 * 3600),
             NAdd(UnitSeconds(s, "h", 3600),
             NAdd(UnitSeconds(s, "m", 60),
                  UnitSeconds(s, "s", 1)))))

----------------------------------------------------------------------------
(* ConnectionParser._parse_connection_flags *)

Code(flag, description) == [flag |-> flag, description |-> description]

\* the characters of a one- or two-character code
CodeChars(flag) ==
    CASE flag = "N1" -> <<"N", "1">> [] flag = "N2" -> <<"N", "2">>
      [] flag = "N3" -> <<"N", "3">> [] flag = "N4" -> <<"N", "4">>
      [] flag = "N5" -> <<"N", "5">> [] flag = "N6" -> <<"N", "6">>
      [] flag = "Z1" -> <<"Z", "1">>
      [] OTHER -> <<flag>>

snort_patterns == <<
    Code("N1", "preserve-connection enabled"),
    Code("N2", "preserve-connection in effect"),
    Code("N3", "elephant-flow"),
    Code("N4", "elephant-flow bypassed"),
    Code("N5", "elephant-flow throttled"),
    Code("N6", "elephant-flow exempted") >>

ElephantCodes == {"N3", "N4", "N5", "N6"}

tcp_flags == <<
    Code("U", "up"), Code("F", "initiator FIN"), Code("f", "responder FIN"),
    Code("R", "initiator acknowledged FIN"), Code("r", "responder acknowledged FIN"),
    Code("A", "awaiting responder ACK to SYN"), Code("a", "awaiting initiator ACK to SYN"),
    Code("I", "initiator data"), Code("O", "responder data"), Code("i", "incomplete") >>

protocol_flags == <<
    Code("T", "SIP"), Code("t", "SIP transient"), Code("H", "H.323"), Code("h", "H.225.0"),
    Code("M", "SMTP data"), Code("m", "SIP media"), Code("D", "DNS"), Code("Q", "QUIC"),
    Code("G", "group"), Code("g", "MGCP"), Code("J", "GTP"), Code("j", "GTP data"),
    Code("k", "Skinny media"), Code("L", "decap tunnel"), Code("q", "SQL*Net data"),
    Code("B", "TCP probe for server certificate"), Code("b", "TCP state-bypass or nailed"),
    Code("C", "CTIQBE media"), Code("c", "cluster centralized"), Code("d", "dump"),
    Code("E", "outside back connection"), Code("e", "semi-distributed"),
    Code("K", "GTP t3-response"), Code("n", "GUP"), Code("P", "inside back connection"),
    Code("p", "passenger flow"), Code("V", "VPN orphan"), Code("v", "M3UA"),
    Code("W", "WAAS"), Code("w", "secondary domain backup"),
    Code("X", "inspected by service module"), Code("x", "per session"),
    Code("Y", "director stub flow"), Code("y", "backup stub flow"),
    Code("Z", "Scansafe redirection"), Code("z", "forwarding stub flow") >>

\* the scan of a table stopped at its first code found
Matching_FirstOnly(table, flags) ==
    LET found == SelectSeq(table, LAMBDA e : Contains(flags, CodeChars(e.flag)))
    IN  IF found = <<>> THEN <<>> ELSE <<found[1]>>

\* the entries of a table whose code occurs in flags, in table order
Matching(table, flags) ==
    SelectSeq(table, LAMBDA e : Contains(flags, CodeChars(e.flag)))

\* the first elephant code found while scanning snort_patterns in order
ElephantFlagType_First(flags) ==
    LET hits == SelectSeq(Matching(snort_patterns, flags),
                          LAMBDA e : e.flag \in ElephantCodes)
    IN  IF hits = <<>> THEN "None" ELSE hits[1].flag

\* every snort code taken as an elephant code
ElephantFlagType_AnySnort(flags) ==
    LET hits == Matching(snort_patterns, flags)
    IN  IF hits = <<>> THEN "None" ELSE hits[Len(hits)].flag

\* the last elephant code assigned while scanning snort_patterns in order
ElephantFlagType(flags) ==
    LET hits == SelectSeq(Matching(snort_patterns, flags),
                          LAMBDA e : e.flag \in ElephantCodes)
    IN  IF hits = <<>> THEN "None" ELSE hits[Len(hits)].flag

\* the offload code matched in either case
parse_connection_flags_any_case(flags_str) ==
    IF flags_str = <<>> \/ flags_str = None THEN EmptyDict
    ELSE LET flags == Strip(Replace(flags_str, <<"-">>, <<>>))
             snort == Matching(snort_patterns, flags)
         IN  [raw_flags |-> flags,
              has_elephant_flag |-> ElephantFlagType(flags) # "None",
              elephant_flag_type |-> ElephantFlagType(flags),
              is_offloaded |-> Contains(flags, <<"o">>) \/ Contains(flags, <<"O">>),
              is_snort_inspected |-> snort # <<>>,
              snort_flags |-> snort,
              tcp_state_flags |-> Matching(tcp_flags, flags),
              protocol_flags |-> Matching(protocol_flags, flags),
              special_flags |->
                  (IF Contains(flags, <<"o">>) THEN <<Code("o", "offloaded")>> ELSE <<>>)
                  \o (IF Contains(flags, <<"Z", "1">>)
                      THEN <<Code("Z1", "zero-trust flow")>> ELSE <<>>)]

\* the initialised flag_info returned for an empty flag string too
parse_connection_flags_defaults(flags_str) ==
    LET flags == IF flags_str = <<>> \/ flags_str = None THEN <<>> ELSE Strip(Replace(flags_str, <<"-">>, <<>>))
        snort == Matching(snort_patterns, flags)
    IN  [raw_flags |-> flags,
         has_elephant_flag |-> ElephantFlagType(flags) # "None",
         elephant_flag_type |-> ElephantFlagType(flags),
         is_offloaded |-> Contains(flags, <<"o">>),
         is_snort_inspected |-> snort # <<>>,
         snort_flags |-> snort,
         tcp_state_flags |-> Matching(tcp_flags, flags),
         protocol_flags |-> Matching(protocol_flags, flags),
         special_flags |->
             (IF Contains(flags, <<"o">>) THEN <<Code("o", "offloaded")>> ELSE <<>>)
             \o (IF Contains(flags, <<"Z", "1">>)
                 THEN <<Code("Z1", "zero-trust flow")>> ELSE <<>>)]

parse_connection_flags(flags_str) ==
    IF flags_str = <<>> \/ flags_str = None THEN EmptyDict
    ELSE LET flags == Strip(Replace(flags_str, <<"-">>, <<>>))
             snort == Matching(snort_patterns, flags)
         IN  [raw_flags |-> flags,
              has_elephant_flag |-> ElephantFlagType(flags) # "None",
              elephant_flag_type |-> ElephantFlagType(flags),
              is_offloaded |-> Contains(flags, <<"o">>),
              is_snort_inspected |-> snort # <<>>,
              snort_flags |-> snort,
              tcp_state_flags |-> Matching(tcp_flags, flags),
              protocol_flags |-> Matching(protocol_flags, flags),
              special_flags |->
                  (IF Contains(flags, <<"o">>) THEN <<Code("o", "offloaded")>> ELSE <<>>)
                  \o (IF Contains(flags, <<"Z", "1">>)
                      THEN <<Code("Z1", "zero-trust flow")>> ELSE <<>>)]

----------------------------------------------------------------------------
(* ConnectionParser._calculate_traffic_rate *)

\* n <= 0 for a Python int: a negative int is kept as its limbs negated
NNonPositive(n) == n = <<>> \/ n[Len(n)] < 0

\* the thresholds compared with '>' in place of '>='
rate_category_exclusive(mbps) ==
    IF ~RatGE(RatOfInt(1000), mbps) THEN "extremely_high"
    ELSE IF ~RatGE(RatOfInt(100), mbps) THEN "very_high"
    ELSE IF ~RatGE(RatOfInt(10), mbps) THEN "high"
    ELSE IF ~RatGE(RatOfInt(1), mbps) THEN "medium"
    ELSE IF ~RatGE(Rat(NOfInt(1), NOfInt(10)), mbps) THEN "low"
    ELSE "very_low"

rate_category(mbps) ==
    IF RatGE(mbps, RatOfInt(1000)) THEN "extremely_high"
    ELSE IF RatGE(mbps, RatOfInt(100)) THEN "very_high"
    ELSE IF RatGE(mbps, RatOfInt(10)) THEN "high"
    ELSE IF RatGE(mbps, RatOfInt(1)) THEN "medium"
    ELSE IF RatGE(mbps, Rat(NOfInt(1), NOfInt(10))) THEN "low"
    ELSE "very_low"

\* the early return labelled as the lowest bucket
calculate_traffic_rate_zero_bucket(bytes_count, uptime_seconds) ==
    IF NNonPositive(uptime_seconds)
    THEN [bytes_per_second |-> RatZero, bytes_per_minute |-> RatZero,
          bytes_per_hour |-> RatZero, mbps |-> RatZero, rate_category |-> "very_low"]
    ELSE LET mbps == Rat(NMulLimb(bytes_count, 8), NMul(NOfInt(1024 * 1024), uptime_seconds))
         IN  [bytes_per_second |-> Rat(bytes_count, uptime_seconds),
              bytes_per_minute |-> Rat(NMulLimb(bytes_count, 60), uptime_seconds),
              bytes_per_hour |-> Rat(NMulLimb(bytes_count, 3600), uptime_seconds),
              mbps |-> mbps,
              rate_category |-> rate_category(mbps)]

calculate_traffic_rate(bytes_count, uptime_seconds) ==
    IF NNonPositive(uptime_seconds)
    THEN [bytes_per_second |-> RatZero, bytes_per_minute |-> RatZero,
          bytes_per_hour |-> RatZero, mbps |-> RatZero, rate_category |-> "unknown"]
    ELSE LET mbps == Rat(NMulLimb(bytes_count, 8), NMul(NOfInt(1024 * 1024), uptime_seconds))
         IN  [bytes_per_second |-> Rat(bytes_count, uptime_seconds),
              bytes_per_minute |-> Rat(NMulLimb(bytes_count, 60), uptime_seconds),
              bytes_per_hour |-> Rat(NMulLimb(bytes_count, 3600), uptime_seconds),
              mbps |-> mbps,
              rate_category |-> rate_category(mbps)]

----------------------------------------------------------------------------
(* ConnectionParser.find_elephant_flows *)

Get(d, k, default) == IF k \in DOMAIN d THEN d[k] ELSE default

\* the labels joined last to first
RECURSIVE Join_Reversed(_, _)
Join_Reversed(strs, sep) ==
    IF strs = <<>> THEN ""
    ELSE IF Len(strs) = 1 THEN strs[1]
    ELSE Join_Reversed(Tail(strs), sep) \o sep \o strs[1]

\* ' + '.join(flow_types)
RECURSIVE Join(_, _)
Join(strs, sep) ==
    IF strs = <<>> THEN ""
    ELSE IF Len(strs) = 1 THEN strs[1]
    ELSE strs[1] \o sep \o Join(Tail(strs), sep)

\* uptime_score + bytes_score + (rate_score * 10)
CombinedScore(uptime_seconds, bytes_count, mbps) ==
    RatAdd(RatAdd(Rat(uptime_seconds, NOfInt(3600)), Rat(bytes_count, NOfInt(1000000))),
           Rat(NMulLimb(mbps.n, 10), mbps.d))

\* every connection taken as qualifying
QualifiesAlways(is_long_lived, is_high_volume, is_high_rate, is_flagged_elephant, is_offloaded_elephant) ==
    TRUE

\* the criteria without the traffic-rate one
QualifiesNoRate(is_long_lived, is_high_volume, is_high_rate, is_flagged_elephant, is_offloaded_elephant) ==
    \/ is_long_lived
    \/ is_high_volume
    \/ is_flagged_elephant
    \/ is_offloaded_elephant

\* the criteria joined with 'and' in place of 'or'
QualifiesAnd(is_long_lived, is_high_volume, is_high_rate, is_flagged_elephant, is_offloaded_elephant) ==
    /\ is_long_lived
    /\ is_high_volume
    /\ is_high_rate
    /\ is_flagged_elephant
    /\ is_offloaded_elephant

\* qualifies = (is_long_lived or is_high_volume or is_high_rate or
\*              is_flagged_elephant or is_offloaded_elephant)
Qualifies(is_long_lived, is_high_volume, is_high_rate, is_flagged_elephant, is_offloaded_elephant) ==
    \/ is_long_lived
    \/ is_high_volume
    \/ is_high_rate
    \/ is_flagged_elephant
    \/ is_offloaded_elephant

\* one iteration of the loop over self.connections for conn under the
\* arguments a: whether conn qualifies, and conn_copy as it would be appended
Classify(conn, a) ==
    LET min_uptime_seconds == NOfInt(a.min_uptime_hours * 3600)
        uptime_seconds ==
            IF "uptime" \in DOMAIN conn THEN parse_time_to_seconds(conn["uptime"])
            ELSE <<>>
        bytes_count ==
            IF "bytes" \in DOMAIN conn /\ IsDigit(conn["bytes"])
            THEN IntOfDigits(conn["bytes"]) ELSE <<>>
        flag_info ==
            IF "flags" \in DOMAIN conn THEN parse_connection_flags(conn["flags"])
            ELSE EmptyDict
        rate_info == calculate_traffic_rate(bytes_count, uptime_seconds)
        is_long_lived == NGE(uptime_seconds, min_uptime_seconds)
        is_high_volume == NGE(bytes_count, NOfInt(a.min_bytes))
        is_high_rate == RatGE(rate_info.mbps, RatOfInt(a.min_mbps))
        is_flagged_elephant == Get(flag_info, "has_elephant_flag", FALSE) /\ a.include_flagged
        is_offloaded_elephant == Get(flag_info, "is_offloaded", FALSE) /\ a.include_offloaded
        flow_types ==
            (IF is_long_lived THEN <<"Long-lived">> ELSE <<>>)
            \o (IF is_high_volume THEN <<"High-volume">> ELSE <<>>)
            \o (IF is_high_rate THEN <<"High-rate">> ELSE <<>>)
            \o (IF is_flagged_elephant
                THEN <<"Flagged-" \o Get(flag_info, "elephant_flag_type", "N?")>> ELSE <<>>)
            \o (IF is_offloaded_elephant THEN <<"Offloaded">> ELSE <<>>)
    IN  [qualifies |-> Qualifies(is_long_lived, is_high_volume, is_high_rate,
                                 is_flagged_elephant, is_offloaded_elephant),
         conn_copy |->
            [combined_score |-> CombinedScore(uptime_seconds, bytes_count, rate_info.mbps),
             elephant_flow_type |-> Join(flow_types, " + ")]
            @@ rate_info
            @@ flag_info
            @@ [uptime_seconds |-> uptime_seconds,
                uptime_hours |-> Rat(uptime_seconds, NOfInt(3600)),
                bytes_int |-> bytes_count,
                is_long_lived |-> is_long_lived,
                is_high_volume |-> is_high_volume,
                is_high_rate |-> is_high_rate,
                is_flagged_elephant |-> is_flagged_elephant,
                is_offloaded_elephant |-> is_offloaded_elephant]
            @@ conn]

\* the loop over self.connections: the enhanced copies of the qualifying ones
RECURSIVE QualifyingFlows(_, _)
QualifyingFlows(conns, a) ==
    IF conns = <<>> THEN <<>>
    ELSE LET c == Classify(Head(conns), a)
         IN  (IF c.qualifies THEN <<c.conn_copy>> ELSE <<>>)
             \o QualifyingFlows(Tail(conns), a)

SortKeys == {"uptime", "bytes", "rate", "both"}

\* the comparison of a sort without reverse=True
KeyGEAscending(sort_by, x, y) ==
    IF sort_by = "uptime" THEN NGE(y["uptime_seconds"], x["uptime_seconds"])
    ELSE IF sort_by = "rate" THEN RatGE(y["mbps"], x["mbps"])
    ELSE IF sort_by = "both" THEN RatGE(y["combined_score"], x["combined_score"])
    ELSE NGE(y["bytes_int"], x["bytes_int"])

\* an unrecognised sort_by sorted by uptime
KeyGE_InvalidAsUptime(sort_by, x, y) ==
    IF sort_by = "bytes" THEN NGE(x["bytes_int"], y["bytes_int"])
    ELSE IF sort_by = "rate" THEN RatGE(x["mbps"], y["mbps"])
    ELSE IF sort_by = "both" THEN RatGE(x["combined_score"], y["combined_score"])
    ELSE NGE(x["uptime_seconds"], y["uptime_seconds"])

\* key(x) >= key(y) for the key the sort_by branch selects
KeyGE(sort_by, x, y) ==
    IF sort_by = "uptime" THEN NGE(x["uptime_seconds"], y["uptime_seconds"])
    ELSE IF sort_by = "rate" THEN RatGE(x["mbps"], y["mbps"])
    ELSE IF sort_by = "both" THEN RatGE(x["combined_score"], y["combined_score"])
    ELSE NGE(x["bytes_int"], y["bytes_int"])

\* list.sort(key=..., reverse=True) is stable: x goes after every element
\* whose key is >= its own
RECURSIVE InsertDesc(_, _, _)
InsertDesc(sorted, x, sort_by) ==
    IF sorted # <<>> /\ KeyGE(sort_by, Head(sorted), x)
    THEN <<Head(sorted)>> \o InsertDesc(Tail(sorted), x, sort_by)
    ELSE <<x>> \o sorted

RECURSIVE SortDesc(_, _)
SortDesc(flows, sort_by) ==
    IF flows = <<>> THEN <<>>
    ELSE InsertDesc(SortDesc(SubSeq(flows, 1, Len(flows) - 1), sort_by),
                    flows[Len(flows)], sort_by)

\* the list find_elephant_flows returns
find_elephant_flows(conns, a) ==
    IF conns = <<>> THEN <<>>
    ELSE SortDesc(QualifyingFlows(conns, a), a.sort_by)

\* conn.copy() and the writes to conn_copy written to conn itself
ConnectionsAliased(conns, a) ==
    [i \in 1..Len(conns) |->
        IF Classify(conns[i], a).qualifies THEN Classify(conns[i], a).conn_copy
        ELSE conns[i]]

\* self.connections after the call: the loop writes only to conn_copy
ConnectionsAfterFind(conns, a) == conns

----------------------------------------------------------------------------
(* The classifier's specification: classification calls on a parsed collection *)

MaxConns == 2

Args(h, b, m, s, f, o) ==
    [min_uptime_hours |-> h, min_bytes |-> b, min_mbps |-> m, sort_by |-> s,
     include_flagged |-> f, include_offloaded |-> o]

\* every threshold at 0 and both include switches off
PassthroughArgs == Args(0, 0, 0, "bytes", FALSE, FALSE)

\* the signature's defaults, and the calls the repository's scripts make
DefaultArgs == Args(1, 1000000, 0, "bytes", TRUE, TRUE)
OffloadedArgs == Args(0, 0, 0, "bytes", FALSE, TRUE)
HighRateArgs == {Args(0, 0, m, "rate", TRUE, TRUE) : m \in {10, 50}}
CombinedArgs == Args(1, 10 * 1024 * 1024, 0, "both", TRUE, TRUE)
LongLivedArgs == Args(24, 0, 0, "uptime", TRUE, TRUE)

\* calls with every threshold set, under every sort key and flag switch
StrictArgs ==
    {Args(1, 10 * 1024 * 1024, 10, s, f, o) :
        s \in SortKeys \cup {"name"}, f \in BOOLEAN, o \in BOOLEAN}

ScriptArgs ==
    {DefaultArgs, OffloadedArgs, CombinedArgs, LongLivedArgs} \cup HighRateArgs

ArgSet == ScriptArgs \cup {PassthroughArgs} \cup StrictArgs

\* the arguments of repeated calls on one parser
RepeatArgs ==
    ScriptArgs \cup {PassthroughArgs, Args(1, 10 * 1024 * 1024, 10, "both", TRUE, FALSE)}

\* connection records as parse_file_simple and parse_file produce them

ConnSet ==
    { \* flagged N3 and long-lived
     [protocol |-> <<"T", "C", "P">>, flags |-> <<"U", "I", "O", " ", "N", "1", "N", "3">>, uptime |-> <<"2", "h", "3", "9", "m", ",">>, bytes |-> <<"1", "4", "3", "9", "5">>],
     \* offloaded, large and fast
     [protocol |-> <<"U", "D", "P">>, flags |-> <<"o">>, uptime |-> <<"2", "1", "s", ",">>, bytes |-> <<"2", "7", "5", "2", "5", "1", "2", "0">>],
     \* a main line only
     [protocol |-> <<"T", "C", "P">>],
     \* exactly 1 hour and 10 MiB
     [protocol |-> <<"T", "C", "P">>, uptime |-> <<"1", "h">>, bytes |-> <<"1", "0", "4", "8", "5", "7", "6", "0">>],
     \* flagged N5 and N4, below every minimum
     [protocol |-> <<"U", "D", "P">>, flags |-> <<"N", "5", "N", "4">>, uptime |-> <<"1", "m", ",">>, bytes |-> <<"9", "0", "0", "0", "0", "0", "0">>],
     \* offloaded, below every minimum
     [protocol |-> <<"U", "D", "P">>, flags |-> <<"o">>, uptime |-> <<"2", "1", "s", ",">>, bytes |-> <<"2", "8">>],
     \* 10 Mbps for one second
     [protocol |-> <<"I", "C", "M", "P">>, flags |-> <<"N", "1">>, uptime |-> <<"1", "s", ",">>, bytes |-> <<"1", "3", "1", "0", "7", "2", "0">>],
     \* a byte counter that is no string of digits, as a parse_file template
     \* may capture it
     [protocol |-> <<"U", "D", "P">>, uptime |-> <<"2", "h">>, bytes |-> <<"9", "k">>]}

RECURSIVE SeqsUpTo(_, _)
SeqsUpTo(S, n) ==
    IF n = 0 THEN {<<>>}
    ELSE LET shorter == SeqsUpTo(S, n - 1)
         IN  shorter \cup {Append(q, x) : q \in {r \in shorter : Len(r) = n - 1}, x \in S}

InitClassify ==
    /\ input = <<>>
    /\ file = <<>>
    /\ connections_local = <<>>
    /\ current_connection = EmptyDict
    /\ pc = "idle"
    /\ connections \in SeqsUpTo(ConnSet, MaxConns)
    /\ elephant_flows = <<>>
    /\ args = <<>>
    /\ stats = EmptyDict
    /\ call = [fn |-> "none", arg |-> <<>>]
    /\ ret = <<>>

\* one call of find_elephant_flows with the arguments a
Call(a) ==
    /\ pc = "idle"
    /\ elephant_flows' = find_elephant_flows(connections, a)
    /\ connections' = ConnectionsAfterFind(connections, a)
    /\ args' = <<a>>
    /\ UNCHANGED <<input, file, connections_local, current_connection, pc,
                   stats, call, ret>>

\* the first classification call on a parsed collection
ClassifyOnce ==
    /\ args = <<>>
    /\ \E a \in ArgSet : Call(a)

\* a classification call at any time
FindElephantFlows ==
    /\ pc = "idle"
    /\ \E a \in RepeatArgs : Call(a)

SpecClassify == InitClassify /\ [][ClassifyOnce]_vars

SpecCalls == InitClassify /\ [][FindElephantFlows]_vars

----------------------------------------------------------------------------
(* The record assembler's specifications *)

MaxLines == 3

ParseLines ==
    { \* 'TCP in: 1/2 out: 3/4,'
      <<"T", "C", "P", " ", "i", "n", ":", " ", "1", "/", "2", " ", "o", "u", "t", ":", " ", "3", "/", "4", ",">>,
      \* 'UDP in: 1/2'
      <<"U", "D", "P", " ", "i", "n", ":", " ", "1", "/", "2">>,
      \* 'ICMP'
      <<"I", "C", "M", "P">>,
      \* 'TCPX x: 1/2'
      <<"T", "C", "P", "X", " ", "x", ":", " ", "1", "/", "2">>,
      \* 'UDP in: 1/2/3'
      <<"U", "D", "P", " ", "i", "n", ":", " ", "1", "/", "2", "/", "3">>,
      \* '  flags - N1, uptime 21s, bytes 28'
      <<" ", " ", "f", "l", "a", "g", "s", " ", "-", " ", "N", "1", ",", " ", "u", "p", "t", "i", "m", "e", " ", "2", "1", "s", ",", " ", "b", "y", "t", "e", "s", " ", "2", "8">>,
      \* 'flags UIO, idle 8s, bytes 9'
      <<"f", "l", "a", "g", "s", " ", "U", "I", "O", ",", " ", "i", "d", "l", "e", " ", "8", "s", ",", " ", "b", "y", "t", "e", "s", " ", "9">>,
      \* 'Initiator: 1.1.1.1, Responder: 2.2.2.2'
      <<"I", "n", "i", "t", "i", "a", "t", "o", "r", ":", " ", "1", ".", "1", ".", "1", ".", "1", ",", " ", "R", "e", "s", "p", "o", "n", "d", "e", "r", ":", " ", "2", ".", "2", ".", "2", ".", "2">>,
      \* 'Connection lookup keyid: 7'
      <<"C", "o", "n", "n", "e", "c", "t", "i", "o", "n", " ", "l", "o", "o", "k", "u", "p", " ", "k", "e", "y", "i", "d", ":", " ", "7">>,
      \* 'junk'
      <<"j", "u", "n", "k">>,
      \* '  '
      <<" ", " ">>}

InitParse ==
    /\ input \in SeqsUpTo(ParseLines, MaxLines)
    /\ file = input
    /\ connections_local = <<>>
    /\ current_connection = EmptyDict
    /\ pc = "parsing"
    /\ connections = <<>>
    /\ elephant_flows = <<>>
    /\ args = <<>>
    /\ stats = EmptyDict
    /\ call = [fn |-> "none", arg |-> <<>>]
    /\ ret = <<>>

NextParse ==
    \/ ReadEmptyLine
    \/ ReadMainLine
    \/ ReadMainLineRaises
    \/ ReadFlagsLine
    \/ ReadInitiatorResponderLine
    \/ ReadKeyidLine
    \/ ReadOtherLine
    \/ EndOfFile

SpecParse == InitParse /\ [][NextParse]_vars

\* well-formed main lines:
\* <PROTOCOL> <srcIface>: <ip>/<port> <dstIface>: <ip>/<port>,
Protocols == {S_TCP, S_UDP, S_ICMP}
Ifaces == {<<"i", "n">>, <<"e", "0", "/", "1">>}
Ips == {<<"1", "0", ".", "1", ".", "5", ".", "1", "0", "1">>, <<"f", "e", "8", "0", ":", ":", "1">>}
Ports == {<<"5", "3">>, <<"8", "0", "0", "0">>}

MainLine(p, si, sip, sp, di, dip, dp) ==
    p \o <<" ">> \o si \o <<":", " ">> \o sip \o <<"/">> \o sp
      \o <<" ">> \o di \o <<":", " ">> \o dip \o <<"/">> \o dp \o <<",">>

WellFormedMainLines ==
    {MainLine(p, si, sip, sp, di, dip, dp) :
        p \in Protocols, si \in Ifaces, sip \in Ips, sp \in Ports,
        di \in Ifaces, dip \in Ips, dp \in Ports}

InitMainLine ==
    /\ input \in {<<l>> : l \in WellFormedMainLines}
    /\ file = input
    /\ connections_local = <<>>
    /\ current_connection = EmptyDict
    /\ pc = "parsing"
    /\ connections = <<>>
    /\ elephant_flows = <<>>
    /\ args = <<>>
    /\ stats = EmptyDict
    /\ call = [fn |-> "none", arg |-> <<>>]
    /\ ret = <<>>

NextMainLine == ReadMainLine \/ EndOfFile

SpecMainLine == InitMainLine /\ [][NextMainLine]_vars

----------------------------------------------------------------------------
(* The sample file of run_validation_test: three connection blocks parsed by
   parse_file_simple and then classified *)

\* the text written to test_sample.txt, line by line
sample_data == <<
    \* UDP FORTISIEM: 10.1.76.4/45879 dc2: 10.1.5.101/53,
    <<"U", "D", "P", " ", "F", "O", "R", "T", "I", "S", "I", "E", "M", ":", " ", "1", "0", ".",
      "1", ".", "7", "6", ".", "4", "/", "4", "5", "8", "7", "9", " ", "d", "c", "2", ":", " ",
      "1", "0", ".", "1", ".", "5", ".", "1", "0", "1", "/", "5", "3", ",">>,
    \* flags - N1, idle 21s, uptime 21s, timeout 2m0s, bytes 28, Rx-RingNum 45, Internal-Data0/1
    <<" ", " ", " ", " ", "f", "l", "a", "g", "s", " ", "-", " ", "N", "1", ",", " ", "i", "d",
      "l", "e", " ", "2", "1", "s", ",", " ", "u", "p", "t", "i", "m", "e", " ", "2", "1", "s",
      ",", " ", "t", "i", "m", "e", "o", "u", "t", " ", "2", "m", "0", "s", ",", " ", "b", "y",
      "t", "e", "s", " ", "2", "8", ",", " ", "R", "x", "-", "R", "i", "n", "g", "N", "u", "m",
      " ", "4", "5", ",", " ", "I", "n", "t", "e", "r", "n", "a", "l", "-", "D", "a", "t", "a",
      "0", "/", "1">>,
    \* Connection lookup keyid: 100587686
    <<" ", " ", "C", "o", "n", "n", "e", "c", "t", "i", "o", "n", " ", "l", "o", "o", "k", "u",
      "p", " ", "k", "e", "y", "i", "d", ":", " ", "1", "0", "0", "5", "8", "7", "6", "8", "6">>,
    <<>>,
    \* TCP FORTISIEM: 10.1.76.3/57798 beproxy: 10.1.19.90/8000,
    <<"T", "C", "P", " ", "F", "O", "R", "T", "I", "S", "I", "E", "M", ":", " ", "1", "0", ".",
      "1", ".", "7", "6", ".", "3", "/", "5", "7", "7", "9", "8", " ", "b", "e", "p", "r", "o",
      "x", "y", ":", " ", "1", "0", ".", "1", ".", "1", "9", ".", "9", "0", "/", "8", "0", "0",
      "0", ",">>,
    \* flags UIO N1N3, idle 8s, uptime 2h39m, timeout 1h0m, bytes 14395, Rx-RingNum 61, Internal-Data0/1
    <<" ", " ", " ", " ", "f", "l", "a", "g", "s", " ", "U", "I", "O", " ", "N", "1", "N", "3",
      ",", " ", "i", "d", "l", "e", " ", "8", "s", ",", " ", "u", "p", "t", "i", "m", "e", " ",
      "2", "h", "3", "9", "m", ",", " ", "t", "i", "m", "e", "o", "u", "t", " ", "1", "h", "0",
      "m", ",", " ", "b", "y", "t", "e", "s", " ", "1", "4", "3", "9", "5", ",", " ", "R", "x",
      "-", "R", "i", "n", "g", "N", "u", "m", " ", "6", "1", ",", " ", "I", "n", "t", "e", "r",
      "n", "a", "l", "-", "D", "a", "t", "a", "0", "/", "1">>,
    \* Initiator: 10.1.76.3, Responder: 10.1.19.90
    <<" ", " ", "I", "n", "i", "t", "i", "a", "t", "o", "r", ":", " ", "1", "0", ".", "1", ".",
      "7", "6", ".", "3", ",", " ", "R", "e", "s", "p", "o", "n", "d", "e", "r", ":", " ", "1",
      "0", ".", "1", ".", "1", "9", ".", "9", "0">>,
    \* Connection lookup keyid: 1931784606
    <<" ", " ", "C", "o", "n", "n", "e", "c", "t", "i", "o", "n", " ", "l", "o", "o", "k", "u",
      "p", " ", "k", "e", "y", "i", "d", ":", " ", "1", "9", "3", "1", "7", "8", "4", "6", "0",
      "6">>,
    <<>>,
    \* UDP VPLS:VPLS(VPLS): 10.2.76.3/4789 FORTISIEM: 10.1.76.3/4816,
    <<"U", "D", "P", " ", "V", "P", "L", "S", ":", "V", "P", "L", "S", "(", "V", "P", "L", "S",
      ")", ":", " ", "1", "0", ".", "2", ".", "7", "6", ".", "3", "/", "4", "7", "8", "9", " ",
      "F", "O", "R", "T", "I", "S", "I", "E", "M", ":", " ", "1", "0", ".", "1", ".", "7", "6",
      ".", "3", "/", "4", "8", "1", "6", ",">>,
    \* flags -o, idle 0s, uptime 1Y25D, timeout 2m0s, bytes 7688943400093, Rx-RingNum 0, Internal-Data0/1
    <<" ", " ", " ", " ", "f", "l", "a", "g", "s", " ", "-", "o", ",", " ", "i", "d", "l", "e",
      " ", "0", "s", ",", " ", "u", "p", "t", "i", "m", "e", " ", "1", "Y", "2", "5", "D", ",",
      " ", "t", "i", "m", "e", "o", "u", "t", " ", "2", "m", "0", "s", ",", " ", "b", "y", "t",
      "e", "s", " ", "7", "6", "8", "8", "9", "4", "3", "4", "0", "0", "0", "9", "3", ",", " ",
      "R", "x", "-", "R", "i", "n", "g", "N", "u", "m", " ", "0", ",", " ", "I", "n", "t", "e",
      "r", "n", "a", "l", "-", "D", "a", "t", "a", "0", "/", "1">>,
    \* Connection lookup keyid: 126607738
    <<" ", " ", "C", "o", "n", "n", "e", "c", "t", "i", "o", "n", " ", "l", "o", "o", "k", "u",
      "p", " ", "k", "e", "y", "i", "d", ":", " ", "1", "2", "6", "6", "0", "7", "7", "3", "8">> >>

\* files made of some of the three blocks of sample_data, in any order, one
\* empty line between blocks
SampleFiles ==
    LET blocks == {SubSeq(sample_data, 1, 3), SubSeq(sample_data, 5, 8),
                   SubSeq(sample_data, 10, 12)}
    IN  {sample_data}
        \cup blocks
        \cup {x \o <<(<<>>)>> \o y : x \in blocks, y \in blocks}
        \cup {SubSeq(sample_data, 10, 12) \o <<(<<>>)>> \o SubSeq(sample_data, 5, 8)
                \o <<(<<>>)>> \o SubSeq(sample_data, 1, 3)}

InitSample ==
    /\ input \in SampleFiles
    /\ file = input
    /\ connections_local = <<>>
    /\ current_connection = EmptyDict
    /\ pc = "parsing"
    /\ connections = <<>>
    /\ elephant_flows = <<>>
    /\ args = <<>>
    /\ stats = EmptyDict
    /\ call = [fn |-> "none", arg |-> <<>>]
    /\ ret = <<>>

NextSample ==
    \/ ReadEmptyLine
    \/ ReadMainLine
    \/ ReadFlagsLine
    \/ ReadInitiatorResponderLine
    \/ ReadKeyidLine
    \/ EndOfFile
    \/ ClassifyOnce

SpecSample == InitSample /\ [][NextSample]_vars

----------------------------------------------------------------------------
(* Calls of the helpers _parse_time_to_seconds, _parse_connection_flags and
   _calculate_traffic_rate: one call per behaviour, `call` holding the helper
   and its argument, `ret` its value once it has returned *)

InitCall(calls) ==
    /\ input = <<>>
    /\ file = <<>>
    /\ connections_local = <<>>
    /\ current_connection = EmptyDict
    /\ pc = "idle"
    /\ connections = <<>>
    /\ elephant_flows = <<>>
    /\ args = <<>>
    /\ stats = EmptyDict
    /\ call \in calls
    /\ ret = <<>>

MaxUnits == 2

TimeUnits == {"Y", "D", "h", "m", "s"}

\* runs of up to n '<digits><unit>' components; the numbers are those of
\* 21s, 1m55s, 2h39m, 1Y25D, and 0
RECURSIVE TimeParts(_)
TimeParts(n) ==
    IF n = 0 THEN {<<>>}
    ELSE LET shorter == TimeParts(n - 1)
         IN  shorter \cup
             {Append(q, [digits |-> d, unit |-> u]) :
                q \in {r \in shorter : Len(r) = n - 1},
                d \in {<<"0">>, <<"1">>, <<"2">>, <<"2", "1">>, <<"2", "5">>,
                       <<"3", "9">>, <<"5", "5">>},
                u \in TimeUnits}

RECURSIVE TimeToken(_)
TimeToken(parts) ==
    IF parts = <<>> THEN <<>>
    ELSE Head(parts).digits \o <<Head(parts).unit>> \o TimeToken(Tail(parts))

\* tokens whose components have distinct units, with and without a trailing
\* comma; then tokens without any '<digits><unit>' component, and None
TimeCalls ==
    {[fn |-> "_parse_time_to_seconds", arg |-> TimeToken(p) \o c, parts |-> p] :
        p \in {q \in TimeParts(MaxUnits) :
                 /\ q # <<>>
                 /\ \A i, j \in 1..Len(q) : i # j => q[i].unit # q[j].unit},
        c \in {<<>>, <<",">>}}
    \cup {[fn |-> "_parse_time_to_seconds", arg |-> t, parts |-> <<>>] :
            t \in {<<>>, <<",">>, <<"a", "b", "c">>, <<"1", "2", "3">>, <<"h">>,
                   <<"5", "x">>, <<"Y", "1">>, <<"1", "2", ":", "3", "0">>,
                   <<"-", "5">>, <<"5", " ", "s">>, None}}

ParseTimeToSeconds ==
    /\ call.fn = "_parse_time_to_seconds"
    /\ ret = <<>>
    /\ ret' = <<parse_time_to_seconds(call.arg)>>
    /\ UNCHANGED <<input, file, connections_local, current_connection, pc,
                   connections, elephant_flows, args, stats, call>>

SpecTime == InitCall(TimeCalls) /\ [][ParseTimeToSeconds]_vars

MaxFlagTokens == 3

\* strings of up to n pieces: codes of every table, the dash and the space
RECURSIVE FlagStrings(_)
FlagStrings(n) ==
    IF n = 0 THEN {<<>>}
    ELSE LET shorter == FlagStrings(n - 1)
         IN  shorter \cup
             {q \o t :
                q \in shorter,
                t \in {<<"N", "1">>, <<"N", "3">>, <<"N", "4">>, <<"N", "5">>, <<"N", "6">>,
                       <<"o">>, <<"U">>, <<"O">>, <<"Z">>, <<"1">>, <<"-">>, <<" ">>}}

\* the strings of pieces, the flag strings of the sample connections, and None
FlagCalls ==
    {[fn |-> "_parse_connection_flags", arg |-> s] :
        s \in FlagStrings(MaxFlagTokens)
              \cup {<<"U", "I", "O", " ", "N", "1", "N", "3">>, <<"-", "o">>,
                    <<"-", " ", "N", "1">>, None}}

ParseConnectionFlags ==
    /\ call.fn = "_parse_connection_flags"
    /\ ret = <<>>
    /\ ret' = <<parse_connection_flags(call.arg)>>
    /\ UNCHANGED <<input, file, connections_local, current_connection, pc,
                   connections, elephant_flows, args, stats, call>>

SpecFlags == InitCall(FlagCalls) /\ [][ParseConnectionFlags]_vars

\* stripped flags lines: the keyword, a flag string of pieces, and either
\* nothing or the counters that follow the first comma
FlagsLineCalls ==
    {[fn |-> "_parse_flags_line", arg |-> Strip(S_flags \o <<" ">> \o s \o rest)] :
        s \in FlagStrings(MaxFlagTokens),
        rest \in {<<>>, <<",", " ", "i", "d", "l", "e", " ", "8", "s", ",", " ",
                          "b", "y", "t", "e", "s", " ", "9">>}}

ParseFlagsLine ==
    /\ call.fn = "_parse_flags_line"
    /\ ret = <<>>
    /\ ret' = <<parse_flags_line(call.arg)>>
    /\ UNCHANGED <<input, file, connections_local, current_connection, pc,
                   connections, elephant_flows, args, stats, call>>

SpecFlagsLine == InitCall(FlagsLineCalls) /\ [][ParseFlagsLine]_vars

MaxSeconds == 5

\* the sample connection with the largest counters
SampleBytes == IntOfDigits(<<"7", "6", "8", "8", "9", "4", "3", "4", "0", "0", "0", "9", "3">>)
SampleSeconds == NOfInt(33696000)

\* byte counts at, just below and just above the count that gives each
\* threshold of rate_category over k seconds (1 Mbps is 131072 bytes a
\* second), over elapsed seconds negative, zero, small, and the sample's
RateCalls ==
    {[fn |-> "_calculate_traffic_rate", arg |-> [bytes_count |-> b, uptime_seconds |-> u]] :
        b \in {NOfInt(n) : n \in {0, 1, 28, 14395, 65535, 65536, 65537}}
              \cup {NOfInt(131072 * t * k + d) :
                      t \in {1, 10, 100, 1000}, k \in 1..MaxSeconds, d \in {-1, 0, 1}}
              \cup {SampleBytes},
        u \in {<<-3600>>, <<-1>>} \cup {NOfInt(k) : k \in 0..MaxSeconds} \cup {SampleSeconds}}

CalculateTrafficRate ==
    /\ call.fn = "_calculate_traffic_rate"
    /\ ret = <<>>
    /\ ret' = <<calculate_traffic_rate(call.arg.bytes_count, call.arg.uptime_seconds)>>
    /\ UNCHANGED <<input, file, connections_local, current_connection, pc,
                   connections, elephant_flows, args, stats, call>>

SpecRate == InitCall(RateCalls) /\ [][CalculateTrafficRate]_vars

----------------------------------------------------------------------------
(* ConnectionParser.get_elephant_flow_stats, analyze_connections, print_summary *)

\* Python None returned where a dict is expected
NoneDict == [None |-> TRUE]

\* collections.Counter over a list of values
Counter(values) ==
    [v \in {values[i] : i \in 1..Len(values)} |->
        Cardinality({i \in 1..Len(values) : values[i] = v})]

\* [f.get(key, default) for f in dicts]
GetEach(dicts, key, default) == [i \in 1..Len(dicts) |-> Get(dicts[i], key, default)]

\* a record without the key counted with the value '0'
ValuesOf_Default(dicts, key) == [i \in 1..Len(dicts) |-> Get(dicts[i], key, <<"0">>)]

\* [d[key] for d in dicts if key in d]
ValuesOf(dicts, key) ==
    LET having == SelectSeq(dicts, LAMBDA d : key \in DOMAIN d)
    IN  [i \in 1..Len(having) |-> having[i][key]]

\* sum(...) of ints
RECURSIVE NSum(_)
NSum(ns) == IF ns = <<>> THEN <<>> ELSE NAdd(Head(ns), NSum(Tail(ns)))

\* max(...) of ints, from 0
RECURSIVE NMax(_)
NMax(ns) ==
    IF ns = <<>> THEN <<>>
    ELSE LET rest == NMax(Tail(ns))
         IN  IF NGE(Head(ns), rest) THEN Head(ns) ELSE rest

\* min(...) of a non-empty list of ints
RECURSIVE NMin(_)
NMin(ns) ==
    IF Len(ns) = 1 THEN ns[1]
    ELSE LET rest == NMin(Tail(ns))
         IN  IF NGE(rest, Head(ns)) THEN Head(ns) ELSE rest

\* sum(...) of floats
RECURSIVE RatSum(_)
RatSum(rs) == IF rs = <<>> THEN RatZero ELSE RatAdd(Head(rs), RatSum(Tail(rs)))

\* max(...) of non-negative floats
RECURSIVE RatMax(_)
RatMax(rs) ==
    IF rs = <<>> THEN RatZero
    ELSE LET rest == RatMax(Tail(rs))
         IN  IF RatGE(Head(rs), rest) THEN Head(rs) ELSE rest

\* len([f for f in flows if f.get(yes) and not f.get(no)])
CountOnly(flows, yes, no) ==
    Cardinality({i \in 1..Len(flows) :
                    Get(flows[i], yes, FALSE) /\ ~Get(flows[i], no, FALSE)})

\* len(elephant_flows) / len(self.connections) divides by zero
get_elephant_flow_stats_raises(flows, conns) == flows # <<>> /\ conns = <<>>

get_elephant_flow_stats(flows, conns) ==
    IF flows = <<>> THEN EmptyDict
    ELSE LET bytes_ints == GetEach(flows, "bytes_int", <<>>)
             hours == GetEach(flows, "uptime_hours", RatZero)
         IN  [total_elephant_flows |-> Len(flows),
              percentage_of_total |-> Rat(NOfInt(Len(flows) * 100), NOfInt(Len(conns))),
              long_lived_only |-> CountOnly(flows, "is_long_lived", "is_high_volume"),
              high_volume_only |-> CountOnly(flows, "is_high_volume", "is_long_lived"),
              both_criteria |->
                  Cardinality({i \in 1..Len(flows) :
                                  Get(flows[i], "is_long_lived", FALSE)
                                  /\ Get(flows[i], "is_high_volume", FALSE)}),
              total_bytes_elephant |-> NSum(bytes_ints),
              avg_uptime_hours |->
                  Rat(RatSum(hours).n, NMul(RatSum(hours).d, NOfInt(Len(flows)))),
              avg_bytes |-> Rat(NSum(bytes_ints), NOfInt(Len(flows))),
              max_uptime_hours |-> RatMax(hours),
              max_bytes |-> NMax(bytes_ints),
              protocols |-> Counter(GetEach(flows, "protocol", None)),
              top_source_ips |-> Counter(GetEach(flows, "src_ip", None)),
              top_dest_ips |-> Counter(GetEach(flows, "dst_ip", None))]

\* what analyze_connections returns: None for an empty self.connections,
\* else the stats dict it builds
analyze_connections(conns) ==
    IF conns = <<>> THEN NoneDict
    ELSE LET digit_bytes == SelectSeq(ValuesOf(conns, "bytes"), IsDigit)
             byte_values == [i \in 1..Len(digit_bytes) |-> IntOfDigits(digit_bytes[i])]
         IN  [total_connections |-> Len(conns),
              protocols |-> Counter(ValuesOf(conns, "protocol")),
              source_interfaces |-> Counter(ValuesOf(conns, "src_interface")),
              destination_interfaces |-> Counter(ValuesOf(conns, "dst_interface")),
              top_source_ips |-> Counter(ValuesOf(conns, "src_ip")),
              top_destination_ips |-> Counter(ValuesOf(conns, "dst_ip")),
              top_ports |-> Counter(ValuesOf(conns, "dst_port")),
              flags_summary |-> Counter(ValuesOf(conns, "flags")),
              byte_statistics |->
                 [total_bytes |-> NSum(byte_values),
                  max_bytes |-> NMax(byte_values),
                  min_bytes |-> IF byte_values = <<>> THEN <<>> ELSE NMin(byte_values),
                  avg_bytes |-> IF byte_values = <<>> THEN RatZero
                                ELSE Rat(NSum(byte_values), NOfInt(Len(byte_values)))]]

\* self.stats after analyze_connections: assigned only past the early return
StatsAfterAnalyze(conns, old) ==
    IF conns = <<>> THEN old ELSE analyze_connections(conns)

\* self.stats after the first two lines of print_summary
StatsAfterSummary(conns, old) ==
    IF old = EmptyDict THEN StatsAfterAnalyze(conns, old) ELSE old

\* self.stats['total_connections'] raises KeyError
print_summary_raises(conns, old) ==
    "total_connections" \notin DOMAIN StatsAfterSummary(conns, old)

GetElephantFlowStats ==
    /\ pc = "idle"
    /\ call.fn = "none"
    /\ call' = [fn |-> "get_elephant_flow_stats", arg |-> elephant_flows]
    /\ IF get_elephant_flow_stats_raises(elephant_flows, connections)
       THEN pc' = "raised" /\ ret' = <<>>
       ELSE pc' = pc /\ ret' = <<get_elephant_flow_stats(elephant_flows, connections)>>
    /\ UNCHANGED <<input, file, connections_local, current_connection,
                   connections, elephant_flows, args, stats>>

AnalyzeConnections ==
    /\ pc = "idle"
    /\ call.fn = "none"
    /\ call' = [fn |-> "analyze_connections", arg |-> <<>>]
    /\ stats' = StatsAfterAnalyze(connections, stats)
    /\ ret' = <<analyze_connections(connections)>>
    /\ UNCHANGED <<input, file, connections_local, current_connection, pc,
                   connections, elephant_flows, args>>

PrintSummary ==
    /\ pc = "idle"
    /\ call.fn = "none"
    /\ call' = [fn |-> "print_summary", arg |-> <<>>]
    /\ stats' = StatsAfterSummary(connections, stats)
    /\ IF print_summary_raises(connections, stats)
       THEN pc' = "raised" /\ ret' = <<>>
       ELSE pc' = pc /\ ret' = <<NoneDict>>
    /\ UNCHANGED <<input, file, connections_local, current_connection,
                   connections, elephant_flows, args>>

\* the classification whose result is handed to the aggregators
ClassifyBeforeStats ==
    /\ call.fn = "none"
    /\ ClassifyOnce

NextStats ==
    \/ ClassifyBeforeStats
    \/ GetElephantFlowStats
    \/ AnalyzeConnections
    \/ PrintSummary

SpecStats == InitClassify /\ [][NextStats]_vars

----------------------------------------------------------------------------
(* One parser object used again: parse_file_simple on a second, smaller
   file at any time the parser is idle, with the classification and the flow
   statistics before or after it *)

\* parse_file_simple called again: the file is opened and the local list and
\* the open record start empty; self.connections and the flow list the caller
\* holds stay as they are until the parse ends
ParseFileSimpleAgain ==
    /\ pc = "idle"
    /\ call.fn = "none"
    /\ \E f \in {<<>>, SubSeq(sample_data, 1, 3), SubSeq(sample_data, 10, 12)} :
          /\ Len(f) < Len(input)
          /\ input' = f
          /\ file' = f
    /\ connections_local' = <<>>
    /\ current_connection' = EmptyDict
    /\ pc' = "parsing"
    /\ UNCHANGED <<connections, elephant_flows, args, stats, call, ret>>

NextReparse ==
    \/ ReadEmptyLine
    \/ ReadMainLine
    \/ ReadFlagsLine
    \/ ReadInitiatorResponderLine
    \/ ReadKeyidLine
    \/ EndOfFile
    \/ ClassifyBeforeStats
    \/ ParseFileSimpleAgain
    \/ GetElephantFlowStats

SpecReparse == InitSample /\ [][NextReparse]_vars

----------------------------------------------------------------------------
(* The display step of the command-line scripts: after a classification
   that found flows, the script calls print_elephant_flows and then goes on
   to its export and summary *)

\* def print_elephant_flows(self, elephant_flows, limit=20)
print_elephant_flows_parameters == {"elephant_flows", "limit"}

\* the calls of print_elephant_flows in the scripts, with the keyword
\* arguments each passes
DisplayCalls ==
    {[script |-> "elephant_flow_analyzer", keywords |-> {"limit"}],
     [script |-> "elephant_flow_detector", keywords |-> {"limit"}],
     [script |-> "quick_elephant_finder", keywords |-> {"limit"}],
     [script |-> "enhanced_elephant_analyzer", keywords |-> {"limit", "show_flags"}],
     [script |-> "ultimate_elephant_finder", keywords |-> {"limit", "show_flags"}]}

\* the call binds its arguments to the signature: a keyword that is no
\* parameter raises TypeError before the body runs, else the table is printed
\* and None returned
PrintElephantFlows ==
    /\ pc = "idle"
    /\ call.fn = "none"
    /\ elephant_flows # <<>>
    /\ \E site \in DisplayCalls :
          /\ call' = [fn |-> "print_elephant_flows", arg |-> site]
          /\ IF site.keywords \subseteq print_elephant_flows_parameters
             THEN pc' = pc /\ ret' = <<None>>
             ELSE pc' = "raised" /\ ret' = <<>>
    /\ UNCHANGED <<input, file, connections_local, current_connection,
                   connections, elephant_flows, args, stats>>

\* the steps of the script after the display: export, summary, and the end
\* of main
ExportAndSummary ==
    /\ pc = "idle"
    /\ call.fn = "print_elephant_flows"
    /\ call' = [fn |-> "main", arg |-> call.arg]
    /\ ret' = <<0>>
    /\ UNCHANGED <<input, file, connections_local, current_connection, pc,
                   connections, elephant_flows, args, stats>>

NextScripts ==
    \/ ClassifyBeforeStats
    \/ PrintElephantFlows
    \/ ExportAndSummary

SpecScripts == InitClassify /\ [][NextScripts]_vars

----------------------------------------------------------------------------
(* Properties of find_elephant_flows *)

Called == args # <<>>
LastArgs == args[1]

\* the keys parse_file_simple may set on a connection record
ConnKeys ==
    {"protocol", "src_interface", "src_ip", "src_port", "dst_interface", "dst_ip",
     "dst_port", "flags", "idle", "uptime", "timeout", "bytes", "rx_ring_num",
     "internal_data", "initiator_ip", "responder_ip", "keyid"}

\* the connection record a returned flow was copied from
SourceOf(f) == [k \in DOMAIN f \cap ConnKeys |-> f[k]]

\* the number of occurrences of x in the sequence q
Count(q, x) == Cardinality({i \in 1..Len(q) : q[i] = x})

IsPermutation(p, q) ==
    /\ Len(p) = Len(q)
    /\ \A i \in 1..Len(p) : Count(p, p[i]) = Count(q, p[i])


FlowIndices == 1..Len(elephant_flows)
ConnIndices == 1..Len(connections)

\* the five criteria of a connection record, from its own fields
LongLivedOf(conn, a) ==
    NGE(IF "uptime" \in DOMAIN conn THEN parse_time_to_seconds(conn["uptime"]) ELSE <<>>,
        NOfInt(a.min_uptime_hours * 3600))
HighVolumeOf(conn, a) ==
    NGE(IF "bytes" \in DOMAIN conn /\ IsDigit(conn["bytes"])
        THEN IntOfDigits(conn["bytes"]) ELSE <<>>, NOfInt(a.min_bytes))
HighRateOf(conn, a) ==
    RatGE(calculate_traffic_rate(
              IF "bytes" \in DOMAIN conn /\ IsDigit(conn["bytes"])
              THEN IntOfDigits(conn["bytes"]) ELSE <<>>,
              IF "uptime" \in DOMAIN conn THEN parse_time_to_seconds(conn["uptime"])
              ELSE <<>>).mbps,
          RatOfInt(a.min_mbps))
FlaggedOf(conn, a) ==
    /\ a.include_flagged
    /\ "flags" \in DOMAIN conn
    /\ Get(parse_connection_flags(conn["flags"]), "has_elephant_flag", FALSE)
OffloadedOf(conn, a) ==
    /\ a.include_offloaded
    /\ "flags" \in DOMAIN conn
    /\ Get(parse_connection_flags(conn["flags"]), "is_offloaded", FALSE)

AnyCriterion(conn, a) ==
    \/ LongLivedOf(conn, a)
    \/ HighVolumeOf(conn, a)
    \/ HighRateOf(conn, a)
    \/ FlaggedOf(conn, a)
    \/ OffloadedOf(conn, a)

\* C1: a connection is in the result of find_elephant_flows iff at least one
\* of the five criteria holds for it (uptime_seconds >= min_uptime_hours*3600,
\* bytes_int >= min_bytes, mbps >= min_mbps, has_elephant_flag and
\* include_flagged, is_offloaded and include_offloaded), and the five
\* booleans of every returned flow equal those five criteria.
C1_QualificationIsTheOr ==
    Called =>
        /\ IsPermutation([j \in FlowIndices |-> SourceOf(elephant_flows[j])],
                         SelectSeq(connections, LAMBDA c : AnyCriterion(c, LastArgs)))
        /\ \A j \in FlowIndices :
             LET f == elephant_flows[j]
             IN  /\ f["is_long_lived"]
                      = NGE(f["uptime_seconds"], NOfInt(LastArgs.min_uptime_hours * 3600))
                 /\ f["is_high_volume"] = NGE(f["bytes_int"], NOfInt(LastArgs.min_bytes))
                 /\ f["is_high_rate"] = RatGE(f["mbps"], RatOfInt(LastArgs.min_mbps))
                 /\ f["is_flagged_elephant"]
                      = (Get(f, "has_elephant_flag", FALSE) /\ LastArgs.include_flagged)
                 /\ f["is_offloaded_elephant"]
                      = (Get(f, "is_offloaded", FALSE) /\ LastArgs.include_offloaded)
                 /\ f["is_long_lived"] = LongLivedOf(f, LastArgs)
                 /\ f["is_high_volume"] = HighVolumeOf(f, LastArgs)
                 /\ f["is_high_rate"] = HighRateOf(f, LastArgs)
                 /\ f["is_flagged_elephant"] = FlaggedOf(f, LastArgs)
                 /\ f["is_offloaded_elephant"] = OffloadedOf(f, LastArgs)

\* a call with every threshold set kept one connection and dropped another
C1_Witness ==
    /\ Called
    /\ LastArgs \in StrictArgs
    /\ Len(connections) = 2
    /\ Len(elephant_flows) = 1
    /\ ~elephant_flows[1]["is_long_lived"]
    /\ ~elephant_flows[1]["is_high_volume"]

\* C2: with min_uptime_hours = 0, min_bytes = 0, min_mbps = 0 and both
\* include switches false, find_elephant_flows returns every connection,
\* also those without an uptime, bytes or flags field.
C2_ZeroThresholdsReturnAll ==
    (Called /\ LastArgs = PassthroughArgs) => Len(elephant_flows) = Len(connections)

C2_Witness ==
    /\ Called
    /\ LastArgs = PassthroughArgs
    /\ Len(connections) = 2
    /\ \E i \in ConnIndices : DOMAIN connections[i] = {"protocol"}
    /\ Len(elephant_flows) = 2

\* C3: every flow returned by the high-rate detection call (min_uptime_hours
\* = 0, min_bytes = 0, min_mbps = 10 or 50, sort_by = 'rate') has a traffic
\* rate of at least min_mbps.
C3_HighRateCallReturnsHighRate ==
    (Called /\ LastArgs \in HighRateArgs) =>
        \A j \in FlowIndices :
            RatGE(elephant_flows[j]["mbps"], RatOfInt(LastArgs.min_mbps))

\* C4: every flow returned by the 'Combined Elephant Flows (>1 hour AND
\* >10MB)' call has an uptime of at least one hour and at least 10 MB.
C4_CombinedCallMeetsBothMinimums ==
    (Called /\ LastArgs = CombinedArgs) =>
        \A j \in FlowIndices :
            /\ NGE(elephant_flows[j]["uptime_seconds"], NOfInt(3600))
            /\ NGE(elephant_flows[j]["bytes_int"], NOfInt(10 * 1024 * 1024))

\* uptime_seconds/3600 + bytes_int/1,000,000 + 10*mbps of a returned flow
ScoreOf(f) ==
    RatAdd(RatAdd(Rat(f["uptime_seconds"], NOfInt(3600)),
                  Rat(f["bytes_int"], NOfInt(1000000))),
           Rat(NMul(f["mbps"].n, NOfInt(10)), f["mbps"].d))

RatEq(x, y) == RatGE(x, y) /\ RatGE(y, x)

\* C5: the returned list is a permutation of the qualifying flows in
\* non-increasing order of the selected key: uptime_seconds for 'uptime',
\* bytes_int for 'bytes', mbps for 'rate', combined_score for 'both', where
\* combined_score = uptime_seconds/3600 + bytes_int/1,000,000 + 10*mbps.
C5_SortedBySelectedKey ==
    (Called /\ LastArgs.sort_by \in SortKeys) =>
        /\ connections # <<>>
             => IsPermutation(elephant_flows, QualifyingFlows(connections, LastArgs))
        /\ \A j \in FlowIndices : RatEq(elephant_flows[j]["combined_score"],
                                        ScoreOf(elephant_flows[j]))
        /\ \A j \in FlowIndices \ {Len(elephant_flows)} :
             LET x == elephant_flows[j]
                 y == elephant_flows[j + 1]
             IN  CASE LastArgs.sort_by = "uptime" ->
                        NGE(x["uptime_seconds"], y["uptime_seconds"])
                   [] LastArgs.sort_by = "bytes" -> NGE(x["bytes_int"], y["bytes_int"])
                   [] LastArgs.sort_by = "rate" -> RatGE(x["mbps"], y["mbps"])
                   [] LastArgs.sort_by = "both" ->
                        RatGE(x["combined_score"], y["combined_score"])

\* the sort by combined_score moved a flow in front of an earlier connection's
C5_Witness ==
    /\ Called
    /\ LastArgs.sort_by = "both"
    /\ Len(elephant_flows) = 2
    /\ elephant_flows # QualifyingFlows(connections, LastArgs)
    /\ ~RatGE(elephant_flows[2]["combined_score"], elephant_flows[1]["combined_score"])

\* C10: find_elephant_flows leaves self.connections as it was: the same
\* records in the same order with the same fields and values, after any
\* number of calls; the derived fields are only on the returned copies.
C10_ConnectionsUnchanged ==
    [][connections' = connections
       /\ \A i \in 1..Len(connections') :
            DOMAIN connections'[i] \subseteq ConnKeys]_vars

\* a call returned enhanced copies of the collection's records
C10_Witness ==
    /\ Called
    /\ Len(connections) = 2
    /\ Len(elephant_flows) = 2
    /\ \A j \in FlowIndices : "combined_score" \in DOMAIN elephant_flows[j]
    /\ \A i \in ConnIndices : "combined_score" \notin DOMAIN connections[i]

----------------------------------------------------------------------------
(* Properties of parse_file_simple *)

StrippedLines(lines) == [i \in 1..Len(lines) |-> Strip(lines[i])]
NonEmptyLines(lines) == SelectSeq(StrippedLines(lines), LAMBDA l : l # <<>>)
MainLinesOf(lines) == SelectSeq(StrippedLines(lines), IsMainLine)

FirstNonEmptyIsMain(lines) ==
    NonEmptyLines(lines) # <<>> /\ IsMainLine(NonEmptyLines(lines)[1])

\* the lines read so far
Consumed == SubSeq(input, 1, Len(input) - Len(file))

\* the records appended to the output so far
Emitted == IF pc = "idle" THEN connections ELSE connections_local

\* C6: when the first non-empty line is a main line, parse_file_simple
\* returns exactly one record per main line, in the order of the main lines;
\* a record is appended only when the next main line is read or the input
\* ends, so while k >= 1 main lines have been read k - 1 records are appended.
C6_OneRecordPerMainLine ==
    FirstNonEmptyIsMain(input) =>
        /\ pc # "raised"
        /\ pc = "idle" =>
             /\ Len(connections) = Len(MainLinesOf(input))
             /\ \A i \in 1..Len(connections) :
                  /\ "protocol" \in DOMAIN connections[i]
                  /\ connections[i]["protocol"] = SplitWs(MainLinesOf(input)[i])[1]
        /\ pc = "parsing" =>
             Len(connections_local)
               = IF MainLinesOf(Consumed) = <<>> THEN 0
                 ELSE Len(MainLinesOf(Consumed)) - 1

\* C7: for a well-formed main line the record has protocol, src_interface,
\* src_ip, src_port, dst_interface, dst_ip and dst_port as given in the line
\* (interfaces without the colon); only the first '<token with :> <token
\* with />' pair is used.
C7_MainLineFieldsRecovered ==
    \A p \in Protocols, si \in Ifaces, sip \in Ips, sp \in Ports,
       di \in Ifaces, dip \in Ips, dp \in Ports :
        LET record == [protocol |-> p, src_interface |-> si, src_ip |-> sip,
                       src_port |-> sp, dst_interface |-> di, dst_ip |-> dip,
                       dst_port |-> dp]
        IN  input = <<MainLine(p, si, sip, sp, di, dip, dp)>> =>
                /\ pc # "raised"
                /\ (pc = "parsing" /\ file = <<>>) => current_connection = record
                /\ pc = "idle" => connections = <<record>>

C7_Witness ==
    /\ pc = "idle"
    /\ input = <<MainLine(S_UDP, <<"e", "0", "/", "1">>, <<"f", "e", "8", "0", ":", ":", "1">>, <<"5", "3">>, <<"i", "n">>, <<"1", "0", ".", "1", ".", "5", ".", "1", "0", "1">>, <<"8", "0", "0", "0">>)>>
    /\ Len(connections) = 1
    /\ connections[1]["src_interface"] = <<"e", "0", "/", "1">>
    /\ connections[1]["src_ip"] = <<"f", "e", "8", "0", ":", ":", "1">>
    /\ connections[1]["dst_port"] = <<"8", "0", "0", "0">>

\* C8: for any sequence of lines parse_file_simple completes without
\* raising an exception; a malformed main line yields a partial record.
C8_NeverRaises == pc # "raised"

\* C9: every record the assembler emits has a protocol field whose value
\* is one of TCP, UDP, ICMP.
C9_ProtocolIsOneOfThree ==
    \A i \in 1..Len(Emitted) :
        /\ "protocol" \in DOMAIN Emitted[i]
        /\ Emitted[i]["protocol"] \in Protocols

----------------------------------------------------------------------------
(* Properties of the classification of the sample file *)

ZeroThresholds(a) == a.min_uptime_hours = 0 /\ a.min_bytes = 0 /\ a.min_mbps = 0

\* the flags string of a record contains one of N3, N4, N5, N6
HasElephantCode(d) ==
    \E c \in ElephantCodes : Contains(Get(d, "flags", <<>>), CodeChars(c))

\* C11: the three sample connections classified with every minimum at 0 and
\* include_offloaded on are all returned, and the third one (flags '-o') is
\* marked is_offloaded_elephant; on every returned flow is_offloaded_elephant
\* is true exactly when its flags contain 'o' and include_offloaded is on, and
\* is_flagged_elephant exactly when its flags contain one of N3..N6 and
\* include_flagged is on.
C11_SampleFlowsAndFlagSwitches ==
    Called =>
        /\ (input = sample_data /\ ZeroThresholds(LastArgs) /\ LastArgs.include_offloaded) =>
              /\ Len(connections) = 3
              /\ Len(elephant_flows) = 3
              /\ \A i \in ConnIndices : \E j \in FlowIndices :
                    SourceOf(elephant_flows[j]) = connections[i]
              /\ \A j \in FlowIndices :
                    SourceOf(elephant_flows[j]) = connections[3] =>
                        elephant_flows[j]["is_offloaded_elephant"]
        /\ \A j \in FlowIndices :
              /\ elephant_flows[j]["is_offloaded_elephant"]
                   = (Contains(Get(elephant_flows[j], "flags", <<>>), <<"o">>)
                      /\ LastArgs.include_offloaded)
              /\ elephant_flows[j]["is_flagged_elephant"]
                   = (HasElephantCode(elephant_flows[j]) /\ LastArgs.include_flagged)

C11_Witness ==
    /\ Called
    /\ input = sample_data
    /\ LastArgs = OffloadedArgs
    /\ Len(elephant_flows) = 3
    /\ elephant_flows[1]["bytes"] = <<"7", "6", "8", "8", "9", "4", "3", "4", "0", "0", "0", "9", "3">>
    /\ elephant_flows[1]["flags"] = <<"o">>
    /\ elephant_flows[1]["is_offloaded_elephant"]
    /\ ~elephant_flows[2]["is_offloaded_elephant"]
    /\ ~elephant_flows[2]["is_flagged_elephant"]
    /\ HasElephantCode(elephant_flows[2])

----------------------------------------------------------------------------
(* Properties of _parse_time_to_seconds *)

TimeReturned == call.fn = "_parse_time_to_seconds" /\ ret # <<>>

SecondsPerUnit(unit) ==
    CASE unit = "Y" -> 365 * 86400
      [] unit = "D" -> 86400
      [] unit = "h" -> 3600
      [] unit = "m" -> 60
      [] unit = "s" -> 1

RECURSIVE DecimalValue(_)
DecimalValue(ds) ==
    IF ds = <<>> THEN 0
    ELSE DecimalValue(SubSeq(ds, 1, Len(ds) - 1)) * 10 + DigitValue(ds[Len(ds)])

RECURSIVE ExpectedSeconds(_)
ExpectedSeconds(parts) ==
    IF parts = <<>> THEN 0
    ELSE DecimalValue(Head(parts).digits) * SecondsPerUnit(Head(parts).unit)
         + ExpectedSeconds(Tail(parts))

\* C12: for a token made of '<digits><unit>' components in any order, with
\* or without a trailing comma, _parse_time_to_seconds returns
\* Y*365*86400 + D*86400 + h*3600 + m*60 + s, an absent unit counting 0;
\* '1Y25D' gives 33,696,000, '2h39m' gives 9,540 and '21s,' gives 21 as '21s'.
C12_DurationIsSumOfUnits ==
    TimeReturned =>
        /\ call.parts # <<>> => ret[1] = NOfInt(ExpectedSeconds(call.parts))
        /\ call.arg = <<"1", "Y", "2", "5", "D">> => ret[1] = NOfInt(33696000)
        /\ call.arg = <<"2", "h", "3", "9", "m">> => ret[1] = NOfInt(9540)
        /\ call.arg \in {<<"2", "1", "s", ",">>, <<"2", "1", "s">>} => ret[1] = NOfInt(21)

C12_Witness ==
    /\ TimeReturned
    /\ call.arg = <<"2", "5", "D", "1", "Y", ",">>
    /\ ret[1] = NOfInt(33696000)

\* n is a non-negative integer in the limb representation
IsNatural(n) ==
    /\ \A i \in 1..Len(n) : n[i] \in 0..(Base - 1)
    /\ n # <<>> => n[Len(n)] # 0

\* the token has a digit directly followed by a unit letter
HasTimeComponent(t) ==
    /\ t # None
    /\ \E i \in 1..(Len(t) - 1) : t[i] \in Digits /\ t[i + 1] \in TimeUnits

\* C13: _parse_time_to_seconds has no failing outcome: for every token, the
\* empty and the absent one included, what it returns is a non-negative
\* integer, and it is 0 when the token has no '<digits><unit>' component.
C13_DurationNeverFails ==
    TimeReturned =>
        /\ IsNatural(ret[1])
        /\ ~HasTimeComponent(call.arg) => ret[1] = <<>>

C13_Witness ==
    /\ TimeReturned
    /\ call.arg = <<"1", "2", "3">>
    /\ ret[1] = <<>>

----------------------------------------------------------------------------
(* Properties of _parse_connection_flags *)

FlagsReturned == call.fn = "_parse_connection_flags" /\ ret # <<>>

\* the flag string is '' or None
EmptyOrAbsent(s) == s = <<>> \/ s = None

\* the flag string without its dashes
DashStripped(s) == SelectSeq(s, LAMBDA c : c # "-")

\* code occurs in s as a substring
Occurs(code, s) ==
    \E i \in 1..(Len(s) - Len(code) + 1) : SubSeq(s, i, i + Len(code) - 1) = code

\* the codes a list of the result reports
Reported(list) == {list[i].flag : i \in 1..Len(list)}

TableCodes(table) == {table[i].flag : i \in 1..Len(table)}

\* C14: every code of every table is reported exactly when it occurs as a
\* substring of the flag string without its dashes, whatever other codes
\* occur: N1..N6 in snort_flags, the TCP state codes in tcp_state_flags, the
\* protocol codes in protocol_flags, 'o' and 'Z1' in special_flags, with
\* is_offloaded, is_snort_inspected and has_elephant_flag following;
\* 'UIO N1N3' gives U, I, O and N1, N3 with has_elephant_flag, '-o' gives
\* is_offloaded and no elephant flag, and 'Z1' gives special Z1 and protocol Z.
C14_CodesAreSubstringTests ==
    (FlagsReturned /\ ~EmptyOrAbsent(call.arg)) =>
        LET s == DashStripped(call.arg)
            r == ret[1]
        IN  /\ \A c \in TableCodes(snort_patterns) :
                  c \in Reported(r.snort_flags) <=> Occurs(CodeChars(c), s)
            /\ \A c \in TableCodes(tcp_flags) :
                  c \in Reported(r.tcp_state_flags) <=> Occurs(CodeChars(c), s)
            /\ \A c \in TableCodes(protocol_flags) :
                  c \in Reported(r.protocol_flags) <=> Occurs(CodeChars(c), s)
            /\ \A c \in {"o", "Z1"} :
                  c \in Reported(r.special_flags) <=> Occurs(CodeChars(c), s)
            /\ r.is_offloaded <=> Occurs(<<"o">>, s)
            /\ r.is_snort_inspected <=> \E c \in TableCodes(snort_patterns) : Occurs(CodeChars(c), s)
            /\ r.has_elephant_flag <=> \E c \in ElephantCodes : Occurs(CodeChars(c), s)
            /\ call.arg = <<"U", "I", "O", " ", "N", "1", "N", "3">> =>
                  /\ Reported(r.tcp_state_flags) = {"U", "I", "O"}
                  /\ Reported(r.snort_flags) = {"N1", "N3"}
                  /\ r.has_elephant_flag
            /\ call.arg = <<"-", "o">> => r.is_offloaded /\ ~r.has_elephant_flag
            /\ Occurs(<<"Z", "1">>, call.arg) =>
                  "Z1" \in Reported(r.special_flags) /\ "Z" \in Reported(r.protocol_flags)

C14_Witness ==
    /\ FlagsReturned
    /\ call.arg = <<"Z", "-", "1">>
    /\ Reported(ret[1].special_flags) = {"Z1"}
    /\ Reported(ret[1].protocol_flags) = {"Z"}
    /\ Reported(ret[1].snort_flags) = {}

\* the position of a code in the fixed order N3, N4, N5, N6
ElephantRank(c) == CASE c = "N3" -> 1 [] c = "N4" -> 2 [] c = "N5" -> 3 [] c = "N6" -> 4

\* C15: when the flag string contains more than one of N3, N4, N5, N6,
\* elephant_flag_type is the contained code that is last in the order
\* N3, N4, N5, N6, wherever the codes stand in the string: 'N5N3' and 'N3N5'
\* both give N5.
C15_LastElephantCodeWins ==
    (FlagsReturned /\ ~EmptyOrAbsent(call.arg)) =>
        LET s == DashStripped(call.arg)
            contained == {c \in ElephantCodes : Occurs(CodeChars(c), s)}
        IN  /\ Cardinality(contained) > 1 =>
                /\ ret[1].elephant_flag_type \in contained
                /\ \A c \in contained :
                      ElephantRank(c) <= ElephantRank(ret[1].elephant_flag_type)
            /\ call.arg \in {<<"N", "5", "N", "3">>, <<"N", "3", "N", "5">>} =>
                  ret[1].elephant_flag_type = "N5"

C15_Witness ==
    /\ FlagsReturned
    /\ call.arg = <<"N", "5", "N", "3">>
    /\ ret[1].elephant_flag_type = "N5"

\* the fields of a flag classification at their defaults
DefaultFlagFields ==
    [has_elephant_flag |-> FALSE, elephant_flag_type |-> "None", is_offloaded |-> FALSE,
     is_snort_inspected |-> FALSE, snort_flags |-> <<>>, tcp_state_flags |-> <<>>,
     protocol_flags |-> <<>>, special_flags |-> <<>>]

HasDefaultFlagFields(r) ==
    \A k \in DOMAIN DefaultFlagFields : k \in DOMAIN r /\ r[k] = DefaultFlagFields[k]

\* C16 as stated: decoding an empty or absent flag string yields a
\* classification whose fields are has_elephant_flag=false, elephant_flag_type
\* unset, is_offloaded=false, is_snort_inspected=false and empty snort_flags,
\* tcp_state_flags, protocol_flags and special_flags.
C16_EmptyYieldsDefaultFields ==
    (FlagsReturned /\ EmptyOrAbsent(call.arg)) => HasDefaultFlagFields(ret[1])

\* C16 amended: decoding an empty or absent flag string returns the empty
\* mapping, with no field set at all (a reader gets false, unset or an empty
\* list only through the default it passes to get); a string that is not
\* empty but holds only dashes and whitespace returns every field at its
\* default.
C16_EmptyYieldsEmptyMapping ==
    FlagsReturned =>
        /\ EmptyOrAbsent(call.arg) =>
              /\ DOMAIN ret[1] = {}
              /\ \A k \in DOMAIN DefaultFlagFields :
                    Get(ret[1], k, DefaultFlagFields[k]) = DefaultFlagFields[k]
        /\ (~EmptyOrAbsent(call.arg) /\ \A i \in 1..Len(call.arg) : call.arg[i] \in {"-", " "}) =>
              /\ HasDefaultFlagFields(ret[1])
              /\ ret[1].raw_flags = <<>>

C16_Witness ==
    /\ FlagsReturned
    /\ call.arg = None
    /\ ret[1] = EmptyDict

----------------------------------------------------------------------------
(* Properties of _calculate_traffic_rate *)

RateReturned == call.fn = "_calculate_traffic_rate" /\ ret # <<>>

RateBuckets == {"extremely_high", "very_high", "high", "medium", "low", "very_low"}

\* the elapsed seconds of the call are <= 0
SecondsNotPositive == call.arg.uptime_seconds \in {<<-3600>>, <<-1>>, <<>>}

\* C17: with elapsed seconds <= 0 _calculate_traffic_rate returns
\* bytes_per_second, bytes_per_minute, bytes_per_hour and mbps equal to 0 and
\* rate_category 'unknown', whatever the byte count; with seconds > 0 the
\* category is one of the six buckets, never 'unknown', and it is 'very_low'
\* when the byte count is 0.
C17_UnknownRateIffNoElapsedTime ==
    RateReturned =>
        LET r == ret[1]
        IN  /\ SecondsNotPositive =>
                /\ RatEq(r.bytes_per_second, RatZero)
                /\ RatEq(r.bytes_per_minute, RatZero)
                /\ RatEq(r.bytes_per_hour, RatZero)
                /\ RatEq(r.mbps, RatZero)
                /\ r.rate_category = "unknown"
            /\ r.rate_category = "unknown" => SecondsNotPositive
            /\ ~SecondsNotPositive =>
                /\ r.rate_category \in RateBuckets
                /\ call.arg.bytes_count = <<>> => r.rate_category = "very_low"

C17_Witness ==
    /\ RateReturned
    /\ call.arg.uptime_seconds = <<-1>>
    /\ call.arg.bytes_count = SampleBytes
    /\ ret[1].rate_category = "unknown"
    /\ ret[1].mbps = RatZero

\* 8 * bytes >= num/den * 1024 * 1024 * seconds, i.e. mbps >= num/den
MbpsAtLeast(num, den) ==
    NGE(NMulLimb(NMulLimb(call.arg.bytes_count, 8), den),
        NMul(NOfInt(num * 1024 * 1024), call.arg.uptime_seconds))

ExpectedBucket ==
    IF MbpsAtLeast(1000, 1) THEN "extremely_high"
    ELSE IF MbpsAtLeast(100, 1) THEN "very_high"
    ELSE IF MbpsAtLeast(10, 1) THEN "high"
    ELSE IF MbpsAtLeast(1, 1) THEN "medium"
    ELSE IF MbpsAtLeast(1, 10) THEN "low"
    ELSE "very_low"

\* C18: for seconds > 0 mbps is (bytes/seconds)*8/(1024*1024) and the
\* category is the first threshold met, 1000, 100, 10, 1, 0.1, a rate equal
\* to a threshold falling in the higher bucket; 7,688,943,400,093 bytes over
\* 33,696,000 seconds give about 1.74 Mbps, category medium.
C18_MbpsAndBuckets ==
    (RateReturned /\ ~SecondsNotPositive) =>
        LET r == ret[1]
        IN  /\ NMul(r.mbps.n, NMul(NOfInt(1024 * 1024), call.arg.uptime_seconds))
                 = NMul(r.mbps.d, NMulLimb(call.arg.bytes_count, 8))
            /\ r.rate_category = ExpectedBucket
            /\ (call.arg.bytes_count = SampleBytes /\ call.arg.uptime_seconds = SampleSeconds) =>
                  /\ RatGE(r.mbps, Rat(NOfInt(174), NOfInt(100)))
                  /\ ~RatGE(r.mbps, Rat(NOfInt(175), NOfInt(100)))
                  /\ r.rate_category = "medium"

C18_Witness ==
    /\ RateReturned
    /\ call.arg.bytes_count = NOfInt(1310720 * 3)
    /\ call.arg.uptime_seconds = NOfInt(3)
    /\ RatEq(ret[1].mbps, RatOfInt(10))
    /\ ret[1].rate_category = "high"

----------------------------------------------------------------------------
(* Properties of the sort keys of find_elephant_flows *)

\* C19: a call of find_elephant_flows with a sort_by other than 'uptime',
\* 'bytes', 'rate', 'both' returns, and what it returns is the list the call
\* with sort_by='bytes' and the same other arguments returns: the same flows
\* in the same order, by byte count descending.
C19_InvalidSortKeyFallsBackToBytes ==
    (Called /\ LastArgs.sort_by \notin SortKeys) =>
        /\ elephant_flows = find_elephant_flows(connections, [LastArgs EXCEPT !.sort_by = "bytes"])
        /\ \A j \in FlowIndices : \A k \in FlowIndices :
              j < k => NGE(elephant_flows[j]["bytes_int"], elephant_flows[k]["bytes_int"])

C19_Witness ==
    /\ Called
    /\ LastArgs.sort_by = "name"
    /\ Len(elephant_flows) = 2
    /\ elephant_flows[1]["bytes_int"] # elephant_flows[2]["bytes_int"]
    /\ ~NGE(elephant_flows[1]["uptime_seconds"], elephant_flows[2]["uptime_seconds"])

----------------------------------------------------------------------------
(* Properties of the statistics aggregators *)

\* C20: get_elephant_flow_stats called with an empty flow list and
\* analyze_connections called with no parsed connections return a zeroed
\* result, their counts equal to 0, and neither raises.
C20_EmptyAggregatesAreZeroed ==
    /\ (call.fn = "get_elephant_flow_stats" /\ call.arg = <<>>) =>
          /\ pc # "raised"
          /\ ret # <<>>
          /\ "total_elephant_flows" \in DOMAIN ret[1]
          /\ ret[1]["total_elephant_flows"] = 0
    /\ (call.fn = "analyze_connections" /\ connections = <<>>) =>
          /\ pc # "raised"
          /\ ret # <<>>
          /\ "total_connections" \in DOMAIN ret[1]
          /\ ret[1]["total_connections"] = 0
          /\ "total_connections" \in DOMAIN stats

----------------------------------------------------------------------------
(* Properties of the blocks of parse_file_simple *)

\* the positions of the main lines among the stripped lines ls, in order
MainPositions(ls) ==
    SelectSeq([j \in 1..Len(ls) |-> j], LAMBDA j : IsMainLine(ls[j]))

\* the lines of the i-th block of ls: its main line and the lines up to the
\* next main line or the end
BlockLines(ls, i) ==
    LET at == MainPositions(ls)
    IN  SubSeq(ls, at[i], IF i < Len(at) THEN at[i + 1] - 1 ELSE Len(ls))

\* the record of a block: the fields of its main line, then those of each
\* continuation line in turn
RECURSIVE BlockRecord(_)
BlockRecord(block) ==
    IF Len(block) = 1 THEN parse_connection_line(block[1])
    ELSE LET before == BlockRecord(SubSeq(block, 1, Len(block) - 1))
             l == block[Len(block)]
         IN  IF l = <<>> THEN before
             ELSE IF StartsWith(l, S_flags) THEN parse_flags_line(l) @@ before
             ELSE IF IsInitRespLine(l) THEN parse_initiator_responder(l) @@ before
             ELSE IF Contains(l, S_keyid) THEN ("keyid" :> KeyidValue(l)) @@ before
             ELSE before

\* C21: every emitted record is made of its own main line and of the
\* continuation lines between that main line and the next one, and of nothing
\* else: the i-th emitted record is the record of the i-th block of the lines
\* read, whatever the other blocks hold and whatever is read afterwards.
C21_FieldsStayInTheirBlock ==
    LET ls == StrippedLines(Consumed)
    IN  \A i \in 1..Len(Emitted) :
            /\ i <= Len(MainPositions(ls))
            /\ Emitted[i] = BlockRecord(BlockLines(ls, i))

\* the step consumes a flags line
FlagsLineStep ==
    /\ pc = "parsing"
    /\ file # <<>>
    /\ file' = Tail(file)
    /\ line # <<>>
    /\ ~IsMainLine(line)
    /\ StartsWith(line, S_flags)

FlagsLineFields == {"flags", "idle", "uptime", "timeout", "bytes", "rx_ring_num", "internal_data"}

\* C22: a flags line changes only the open record: each field it extracts
\* takes the extracted value, every other field of the open record (main-line
\* fields and fields of earlier continuation lines) keeps its value, no field
\* outside the seven flags-line fields appears, and the records already
\* emitted are unchanged.
C22_FlagsLineChangesOnlyOpenRecord ==
    [][FlagsLineStep =>
        LET info == parse_flags_line(line)
        IN  /\ DOMAIN info \subseteq FlagsLineFields
            /\ DOMAIN current_connection' = DOMAIN current_connection \cup DOMAIN info
            /\ \A k \in DOMAIN info : current_connection'[k] = info[k]
            /\ \A k \in DOMAIN current_connection \ DOMAIN info :
                   current_connection'[k] = current_connection[k]
            /\ connections_local' = connections_local
            /\ connections' = connections]_vars

\* a second flags line of a block has overwritten flags and bytes and kept the
\* uptime of the first and the protocol of the main line
C22_Witness ==
    /\ pc = "parsing"
    /\ file = <<>>
    /\ DOMAIN current_connection = {"protocol", "flags", "uptime", "idle", "bytes"}
    /\ current_connection["flags"] = <<"U", "I", "O">>
    /\ current_connection["uptime"] = <<"2", "1", "s", ",">>
    /\ current_connection["bytes"] = <<"9">>

----------------------------------------------------------------------------
(* Properties of _parse_flags_line *)

FlagsLineReturned == call.fn = "_parse_flags_line" /\ ret # <<>>

\* the text of a flags line between the keyword and the first comma
TextBeforeFirstComma(l) ==
    LET after == SubSeq(l, Len(S_flags) + 1, Len(l))
        comma == Find(after, <<",">>)
    IN  IF comma = 0 THEN after ELSE SubSeq(after, 1, comma - 1)

\* a text without its leading "- " or "-" marker
WithoutLeadingMarker(t) ==
    IF StartsWith(t, <<"-", " ">>) THEN SubSeq(t, 3, Len(t))
    ELSE IF StartsWith(t, <<"-">>) THEN SubSeq(t, 2, Len(t))
    ELSE t

\* C23: the flags value of a flags line is the text between the keyword and
\* the first comma, without the surrounding blanks and without a leading
\* "- " or "-" marker; every other character of that text is kept.
C23_OnlyLeadingMarkerRemoved ==
    FlagsLineReturned =>
        ret[1]["flags"] = WithoutLeadingMarker(Strip(TextBeforeFirstComma(call.arg)))

----------------------------------------------------------------------------
(* Consistency of a flag classification *)

\* C24: in every non-empty flag classification, has_elephant_flag holds
\* exactly when elephant_flag_type is one of N3..N6 and exactly when one of
\* N3..N6 occurs in the classified flag string (raw_flags); it implies
\* is_snort_inspected, which holds exactly when snort_flags is non-empty and
\* exactly when one of N1..N6 occurs; and is_offloaded holds exactly when
\* special_flags has the entry of 'o'.
C24_FlagClassificationIsConsistent ==
    (FlagsReturned /\ ~EmptyOrAbsent(call.arg)) =>
        LET r == ret[1]
            elephant == \E c \in ElephantCodes : Occurs(CodeChars(c), r.raw_flags)
            snort == \E c \in TableCodes(snort_patterns) : Occurs(CodeChars(c), r.raw_flags)
        IN  /\ r.has_elephant_flag <=> r.elephant_flag_type \in ElephantCodes
            /\ r.has_elephant_flag <=> elephant
            /\ r.has_elephant_flag => r.is_snort_inspected
            /\ r.is_snort_inspected <=> r.snort_flags # <<>>
            /\ r.is_snort_inspected <=> snort
            /\ r.is_offloaded <=> "o" \in Reported(r.special_flags)
            /\ r.is_offloaded <=> Occurs(<<"o">>, r.raw_flags)

\* an elephant code with the offload code, and a snort code that is no
\* elephant code
C24_Witness ==
    /\ FlagsReturned
    /\ \/ /\ call.arg = <<"N", "4", "o">>
          /\ ret[1].has_elephant_flag
          /\ ret[1].is_snort_inspected
          /\ ret[1].is_offloaded
       \/ /\ call.arg = <<"N", "1", "-">>
          /\ ~ret[1].has_elephant_flag
          /\ ret[1].is_snort_inspected

----------------------------------------------------------------------------
(* Connections without a usable byte counter *)

\* the bytes field of the record is absent or is no string of digits
NoByteCount(conn) ==
    \/ "bytes" \notin DOMAIN conn
    \/ conn["bytes"] = <<>>
    \/ \E i \in 1..Len(conn["bytes"]) :
          conn["bytes"][i] \notin {"0", "1", "2", "3", "4", "5", "6", "7", "8", "9"}

\* the connections that have a byte counter
Counted == SelectSeq(connections, LAMBDA c : ~NoByteCount(c))

\* C25: a connection whose bytes field is absent or no string of digits is
\* processed without error: a flow find_elephant_flows returns for it has
\* bytes_int = 0 and mbps = 0, and analyze_connections completes and leaves it
\* out of total_bytes, max_bytes, min_bytes and avg_bytes, which are those
\* of the other connections (0 when there are none).
C25_MissingBytesCountAsZero ==
    /\ Called =>
          /\ \A j \in FlowIndices :
                NoByteCount(SourceOf(elephant_flows[j])) =>
                    /\ elephant_flows[j]["bytes_int"] = <<>>
                    /\ RatEq(elephant_flows[j]["mbps"], RatZero)
    /\ (call.fn = "analyze_connections" /\ connections # <<>>) =>
          LET values == [i \in 1..Len(Counted) |-> IntOfDigits(Counted[i]["bytes"])]
              b == stats["byte_statistics"]
          IN  /\ pc # "raised"
              /\ b["total_bytes"] = NSum(values)
              /\ \A i \in 1..Len(values) :
                    NGE(b["max_bytes"], values[i]) /\ NGE(values[i], b["min_bytes"])
              /\ values = <<>> =>
                    b["max_bytes"] = <<>> /\ b["min_bytes"] = <<>> /\ RatEq(b["avg_bytes"], RatZero)
              /\ values # <<>> =>
                    /\ \E i \in 1..Len(values) : b["max_bytes"] = values[i]
                    /\ \E i \in 1..Len(values) : b["min_bytes"] = values[i]
                    /\ RatEq(b["avg_bytes"], Rat(NSum(values), NOfInt(Len(values))))

\* a record without bytes and one with bytes '9k' were returned as flows and
\* then analysed together
C25_Witness ==
    /\ Called
    /\ call.fn = "analyze_connections"
    /\ Len(elephant_flows) = 2
    /\ \E j \in FlowIndices : "bytes" \notin DOMAIN elephant_flows[j]
    /\ \E j \in FlowIndices :
          /\ "bytes" \in DOMAIN elephant_flows[j]
          /\ elephant_flows[j]["bytes"] = <<"9", "k">>
          /\ elephant_flows[j]["bytes_int"] = <<>>
    /\ stats["byte_statistics"]["total_bytes"] = <<>>

----------------------------------------------------------------------------
(* The label of a returned flow *)

\* the labels of the criteria a flow records as true, in the fixed order
LabelsOf(f) ==
    (IF f["is_long_lived"] THEN <<"Long-lived">> ELSE <<>>)
    \o (IF f["is_high_volume"] THEN <<"High-volume">> ELSE <<>>)
    \o (IF f["is_high_rate"] THEN <<"High-rate">> ELSE <<>>)
    \o (IF f["is_flagged_elephant"] THEN <<"Flagged-" \o f["elephant_flag_type"]>> ELSE <<>>)
    \o (IF f["is_offloaded_elephant"] THEN <<"Offloaded">> ELSE <<>>)

\* labels written one after the other with ' + ' between them
RECURSIVE PlusSeparated(_)
PlusSeparated(labels) ==
    IF labels = <<>> THEN ""
    ELSE IF Len(labels) = 1 THEN labels[1]
    ELSE labels[1] \o " + " \o PlusSeparated(Tail(labels))

\* C26: elephant_flow_type of a returned flow is the ' + '-joined list of
\* exactly the labels whose boolean is true on that flow, in the order
\* Long-lived, High-volume, High-rate, Flagged-<elephant_flag_type>, Offloaded.
C26_LabelListsTrueCriteriaInOrder ==
    Called =>
        \A j \in FlowIndices :
            elephant_flows[j]["elephant_flow_type"] = PlusSeparated(LabelsOf(elephant_flows[j]))

\* a flow with the first and the fourth label only
C26_Witness ==
    /\ Called
    /\ \E j \in FlowIndices :
          elephant_flows[j]["elephant_flow_type"] = "Long-lived + Flagged-N3"

\* the label list of the criteria chosen by on, with the flag code c
LabelChoice(on, c) ==
    (IF on[1] THEN <<"Long-lived">> ELSE <<>>)
    \o (IF on[2] THEN <<"High-volume">> ELSE <<>>)
    \o (IF on[3] THEN <<"High-rate">> ELSE <<>>)
    \o (IF on[4] THEN <<"Flagged-" \o c>> ELSE <<>>)
    \o (IF on[5] THEN <<"Offloaded">> ELSE <<>>)

\* the texts of the non-empty label lists whose flag label, if any, names
\* one of N3..N6
ProperTypes(flagged) ==
    {PlusSeparated(LabelChoice(on, c)) :
        on \in {b \in [1..5 -> BOOLEAN] : (\E i \in 1..5 : b[i]) /\ b[4] = flagged},
        c \in ElephantCodes}

\* C27: every flow find_elephant_flows returns has at least one of its five
\* booleans true and a non-empty elephant_flow_type, and when
\* is_flagged_elephant is true its flag label is one of Flagged-N3 ..
\* Flagged-N6: 'Flagged-N?' and 'Flagged-None' never appear.
C27_LabelIsNeverEmptyNorPlaceholder ==
    Called =>
        \A j \in FlowIndices :
            LET f == elephant_flows[j]
            IN  /\ f["elephant_flow_type"] # ""
                /\ \/ f["is_long_lived"] \/ f["is_high_volume"] \/ f["is_high_rate"]
                   \/ f["is_flagged_elephant"] \/ f["is_offloaded_elephant"]
                /\ f["elephant_flow_type"] \in ProperTypes(f["is_flagged_elephant"])
                /\ f["is_flagged_elephant"] => f["elephant_flag_type"] \in ElephantCodes

\* a flow that qualifies by its flag alone, and one whose flags are absent
C27_Witness ==
    /\ Called
    /\ Len(elephant_flows) = 2
    /\ \E j \in FlowIndices : elephant_flows[j]["elephant_flow_type"] = "Flagged-N5"
    /\ \E j \in FlowIndices : "flags" \notin DOMAIN elephant_flows[j]

----------------------------------------------------------------------------
(* The buckets of get_elephant_flow_stats *)

StatsReturned == call.fn = "get_elephant_flow_stats" /\ ret # <<>> /\ elephant_flows # <<>>

\* C28: on a list returned by find_elephant_flows, long_lived_only,
\* high_volume_only and both_criteria count every returned flow exactly once:
\* their sum is total_elephant_flows.
C28_BucketsPartitionTheFlows ==
    StatsReturned =>
        ret[1]["long_lived_only"] + ret[1]["high_volume_only"] + ret[1]["both_criteria"]
            = ret[1]["total_elephant_flows"]

----------------------------------------------------------------------------
(* Flow statistics on a parser used again *)

\* C29: whatever parse_file_simple, find_elephant_flows and
\* get_elephant_flow_stats calls were made on the parser, also a parse of a
\* second, smaller or empty file between the classification and the
\* statistics, get_elephant_flow_stats on a non-empty list returned by
\* find_elephant_flows completes and reports a percentage_of_total greater
\* than 0 and at most 100.
C29_PercentageWithinBounds ==
    (call.fn = "get_elephant_flow_stats" /\ call.arg # <<>>) =>
        /\ pc # "raised"
        /\ ret # <<>>
        /\ ~RatGE(RatZero, ret[1]["percentage_of_total"])
        /\ RatGE(RatOfInt(100), ret[1]["percentage_of_total"])

----------------------------------------------------------------------------
(* The display step of ultimate_elephant_finder and enhanced_elephant_analyzer *)

\* C30: the calls ultimate_elephant_finder.main and
\* enhanced_elephant_analyzer.main make to print_elephant_flows are accepted
\* by its signature: whenever flows were found, the display step does not
\* end in an error and the script goes on to its export and summary.
C30_DisplayCallIsAccepted ==
    (/\ call.fn \in {"print_elephant_flows", "main"}
     /\ call.arg.script \in {"ultimate_elephant_finder", "enhanced_elephant_analyzer"})
        => pc # "raised"

====
